---- MODULE Spec2Model ----
(***************************************************************************)
(* Logger-Alarm: the alarm model (models/alarm.py, models/alarm_type.py),  *)
(* the alarm registry and its persistence (services/alarm_monitor.py), the *)
(* CRUD facade process (api_manager.py) and the monitor process            *)
(* (run_monitor.py, started by run_services.py).                           *)
(*                                                                         *)
(* Python values: None is the empty tuple and a present number v is <<v>>; *)
(* a dict is a function from its keys; a list is a sequence.  A call that  *)
(* can raise returns a record with a "raised" flag and the object as the   *)
(* call left it.                                                           *)
(***************************************************************************)
EXTENDS Integers, Sequences, FiniteSets, TLC

VARIABLES
    alarms,         \* facade process: AlarmMonitor.alarms (key -> Alarm)
    file,           \* data/alarms.json: the object under its "alarms" key
    monAlarms,      \* monitor process: AlarmMonitor.alarms (its own copy)
    monPc,          \* monitor process: position in AlarmMonitor.run
    active_alarms,  \* monitor process: rest of the list check_alarms iterates
    pc,             \* facade threads: position of each caller in its call
    alarm_dict,     \* facade threads: the local dict a call is building
    last,           \* the call that ended last and what it did
    wall_clock,     \* the wall clock, in seconds (datetime.now())
    loop_time,      \* monitor process: current_time, local of AlarmMonitor.run
    next_run,       \* monitor process: local of AlarmMonitor.run
    sleep_until,    \* monitor process: the instant time.sleep returns at
    retry_count,    \* monitor process: local of run_monitor.main
    exit_status,    \* monitor process: None while it runs, then its status
    fetched,        \* monitor process: latest_data of the check_alarm in flight
    sweep,          \* monitor process: the alarms check_alarms has listed
                    \* and those it has checked, since the sweep started
    starts          \* monitor process: the calls of monitor.run() so far

(* The state of run_monitor.main and of the loop of AlarmMonitor.run. *)
mainVars ==
    <<wall_clock, loop_time, next_run, sleep_until, retry_count, exit_status,
      fetched, sweep, starts>>

vars ==
    <<alarms, file, monAlarms, monPc, active_alarms, pc, alarm_dict, last,
      mainVars>>

---------------------------------------------------------------------------
(* Bounds of the model *)

MinThreshold == 1
MaxThreshold == 3
MaxValue == 4

(* 24 * 60 * 60 in Alarm.check_alarm *)
SecondsPerDay == 86400

None == <<>>
Some(v) == <<v>>

Get(data, key, default) == IF key \in DOMAIN data THEN data[key] ELSE default

Opt(key, S) == {<<>>} \cup {key :> v : v \in S}

---------------------------------------------------------------------------
(* models/alarm_type.py *)

AlarmType == {"BELOW", "ABOVE", "BETWEEN", "OUTSIDE", "EQUAL"}

(* The thresholds stored on the enum member: None from __init__, and       *)
(* nothing in the repository calls AlarmType.set_thresholds.               *)
AlarmType_threshold1(alarm_type) == None

AlarmType_threshold2(alarm_type) == None

---------------------------------------------------------------------------
(* models/alarm.py *)

Id(serial_number, channel) == serial_number \o "_" \o channel

Raised(self) == [raised |-> TRUE, self |-> self]

Returned(self) == [raised |-> FALSE, self |-> self]

set_thresholds(self, threshold1, threshold2) ==
    IF threshold1 = None THEN Returned(self)
    ELSE IF self.alarm_type \in {"BETWEEN", "OUTSIDE"}
    THEN IF threshold2 = None THEN Raised(self)
         ELSE IF threshold1[1] >= threshold2[1] THEN Raised(self)
         ELSE Returned([self EXCEPT !.threshold1 = threshold1,
                                    !.threshold2 = threshold2])
    ELSE IF threshold2 # None THEN Raised(self)
         ELSE Returned([self EXCEPT !.threshold1 = threshold1,
                                    !.threshold2 = None])

Alarm_init(serial_number, channel, alarm_type, threshold1, threshold2, pozo, emails, logger_name) ==
    set_thresholds(
        [serial_number |-> serial_number,
         channel       |-> channel,
         alarm_type    |-> alarm_type,
         pozo          |-> pozo,
         emails        |-> IF emails = None THEN <<>> ELSE emails,
         logger_name   |-> logger_name,
         id            |-> Id(serial_number, channel),
         active        |-> TRUE,
         threshold1    |-> None,
         threshold2    |-> None],
        threshold1, threshold2)

check_threshold_closed_between(self, value) ==
    IF self.threshold1 = None THEN [raised |-> TRUE, ret |-> FALSE]
    ELSE IF self.alarm_type = "BELOW"
    THEN [raised |-> FALSE, ret |-> value < self.threshold1[1]]
    ELSE IF self.alarm_type = "ABOVE"
    THEN [raised |-> FALSE, ret |-> value > self.threshold1[1]]
    ELSE IF self.alarm_type = "EQUAL"
    THEN [raised |-> FALSE, ret |-> value = self.threshold1[1]]
    ELSE IF self.alarm_type = "BETWEEN"
    THEN IF self.threshold2 = None THEN [raised |-> TRUE, ret |-> FALSE]
         ELSE [raised |-> FALSE,
               ret |-> self.threshold1[1] <= value /\ value <= self.threshold2[1]]
    ELSE IF self.alarm_type = "OUTSIDE"
    THEN IF self.threshold2 = None THEN [raised |-> TRUE, ret |-> FALSE]
         ELSE [raised |-> FALSE,
               ret |-> value < self.threshold1[1] \/ value > self.threshold2[1]]
    ELSE [raised |-> FALSE, ret |-> FALSE]

check_threshold_closed_outside(self, value) ==
    IF self.threshold1 = None THEN [raised |-> TRUE, ret |-> FALSE]
    ELSE IF self.alarm_type = "BELOW"
    THEN [raised |-> FALSE, ret |-> value < self.threshold1[1]]
    ELSE IF self.alarm_type = "ABOVE"
    THEN [raised |-> FALSE, ret |-> value > self.threshold1[1]]
    ELSE IF self.alarm_type = "EQUAL"
    THEN [raised |-> FALSE, ret |-> value = self.threshold1[1]]
    ELSE IF self.alarm_type = "BETWEEN"
    THEN IF self.threshold2 = None THEN [raised |-> TRUE, ret |-> FALSE]
         ELSE [raised |-> FALSE,
               ret |-> self.threshold1[1] < value /\ value < self.threshold2[1]]
    ELSE IF self.alarm_type = "OUTSIDE"
    THEN IF self.threshold2 = None THEN [raised |-> TRUE, ret |-> FALSE]
         ELSE [raised |-> FALSE,
               ret |-> value <= self.threshold1[1] \/ value >= self.threshold2[1]]
    ELSE [raised |-> FALSE, ret |-> FALSE]

check_threshold(self, value) ==
    IF self.threshold1 = None THEN [raised |-> TRUE, ret |-> FALSE]
    ELSE IF self.alarm_type = "BELOW"
    THEN [raised |-> FALSE, ret |-> value < self.threshold1[1]]
    ELSE IF self.alarm_type = "ABOVE"
    THEN [raised |-> FALSE, ret |-> value > self.threshold1[1]]
    ELSE IF self.alarm_type = "EQUAL"
    THEN [raised |-> FALSE, ret |-> value = self.threshold1[1]]
    ELSE IF self.alarm_type = "BETWEEN"
    THEN IF self.threshold2 = None THEN [raised |-> TRUE, ret |-> FALSE]
         ELSE [raised |-> FALSE,
               ret |-> self.threshold1[1] < value /\ value < self.threshold2[1]]
    ELSE IF self.alarm_type = "OUTSIDE"
    THEN IF self.threshold2 = None THEN [raised |-> TRUE, ret |-> FALSE]
         ELSE [raised |-> FALSE,
               ret |-> value < self.threshold1[1] \/ value > self.threshold2[1]]
    ELSE [raised |-> FALSE, ret |-> FALSE]

(* KeyError on a missing 'serial', 'channel' or 'type' and on a type that  *)
(* is no member of AlarmType; ValueError from set_thresholds.              *)
from_dict(data) ==
    IF ~({"serial", "channel", "type"} \subseteq DOMAIN data) THEN Raised(None)
    ELSE IF data["type"] \notin AlarmType THEN Raised(None)
    ELSE LET alarm == Alarm_init(data["serial"], data["channel"], data["type"],
                                 Get(data, "threshold1", None),
                                 Get(data, "threshold2", None),
                                 Get(data, "pozo", ""),
                                 Get(data, "emails", <<>>),
                                 Get(data, "logger_name", ""))
         IN  IF alarm.raised THEN Raised(None)
             ELSE Returned([alarm.self EXCEPT
                               !.active = Get(data, "enabled", TRUE),
                               !.id = Id(data["serial"], data["channel"])])

to_dict(self) ==
    [serial      |-> self.serial_number,
     channel     |-> self.channel,
     type        |-> self.alarm_type,
     threshold1  |-> self.threshold1,
     threshold2  |-> self.threshold2,
     enabled     |-> self.active,
     emails      |-> self.emails,
     pozo        |-> self.pozo,
     logger_name |-> self.logger_name]

update_defaulting_emails(self, data) ==
    IF "type" \in DOMAIN data /\ data["type"] \notin AlarmType THEN Raised(self)
    ELSE LET merged == [self EXCEPT
                 !.alarm_type    = Get(data, "type", self.alarm_type),
                 !.serial_number = Get(data, "serial", self.serial_number),
                 !.channel       = Get(data, "channel", self.channel),
                 !.pozo          = Get(data, "pozo", self.pozo),
                 !.emails        = Get(data, "emails", <<>>),
                 !.active        = Get(data, "enabled", self.active),
                 !.logger_name   = Get(data, "logger_name", self.logger_name)]
             set == IF "threshold1" \in DOMAIN data
                    THEN set_thresholds(merged, data["threshold1"],
                                        Get(data, "threshold2", self.threshold2))
                    ELSE Returned(merged)
         IN  IF set.raised THEN Raised(set.self)
             ELSE Returned([set.self EXCEPT
                     !.id = Id(set.self.serial_number, set.self.channel)])

(* Alarm.update: the assignments in order.  An unknown type raises before  *)
(* anything is assigned; set_thresholds raises after the other fields were *)
(* assigned and before the id is recomputed.                               *)
update(self, data) ==
    IF "type" \in DOMAIN data /\ data["type"] \notin AlarmType THEN Raised(self)
    ELSE LET merged == [self EXCEPT
                 !.alarm_type    = Get(data, "type", self.alarm_type),
                 !.serial_number = Get(data, "serial", self.serial_number),
                 !.channel       = Get(data, "channel", self.channel),
                 !.pozo          = Get(data, "pozo", self.pozo),
                 !.emails        = Get(data, "emails", self.emails),
                 !.active        = Get(data, "enabled", self.active),
                 !.logger_name   = Get(data, "logger_name", self.logger_name)]
             set == IF "threshold1" \in DOMAIN data
                    THEN set_thresholds(merged, data["threshold1"],
                                        Get(data, "threshold2", self.threshold2))
                    ELSE Returned(merged)
         IN  IF set.raised THEN Raised(set.self)
             ELSE Returned([set.self EXCEPT
                     !.id = Id(set.self.serial_number, set.self.channel)])

send_alarm_email_to_nobody(self) == 1

(* The number of send_email calls the method makes. *)
send_alarm_email(self) == IF self.emails = <<>> THEN 0 ELSE 1

send_old_data_email(self) == IF self.emails = <<>> THEN 0 ELSE 1

(* A timestamp string is its format and the instant (in seconds) it        *)
(* denotes; strptime succeeds on the two formats only.                     *)
TimestampFormats == {"%Y-%m-%d %H:%M", "%Y-%m-%d %H:%M:%S"}

parse_timestamp(timestamp_str) ==
    IF timestamp_str.format \in TimestampFormats
    THEN Some(timestamp_str.instant)
    ELSE None

(* What one call of Alarm.check_alarm did: whether it raised, what it      *)
(* returned, whether check_threshold and send_old_data_email were called,  *)
(* and how many times send_email was called.                               *)
Checked(raised, ret, threshold_checked, old_data, sent) ==
    [raised |-> raised, ret |-> ret, threshold_checked |-> threshold_checked,
     old_data |-> old_data, sent |-> sent]

check_alarm_stale_at_one_day(self, send_email, latest_data, now) ==
    IF latest_data = None THEN Checked(FALSE, FALSE, FALSE, FALSE, 0)
    ELSE LET timestamp_str == latest_data[1]
             value == latest_data[2]
             timestamp == parse_timestamp(timestamp_str)
         IN  IF timestamp = None THEN Checked(FALSE, FALSE, FALSE, FALSE, 0)
             ELSE LET time_diff == now - timestamp[1]
                      rule == check_threshold(self, value)
                  IN  IF send_email
                      THEN IF time_diff >= SecondsPerDay
                           THEN Checked(FALSE, FALSE, FALSE, TRUE,
                                        send_old_data_email(self))
                           ELSE IF rule.raised
                           THEN Checked(TRUE, FALSE, TRUE, FALSE, 0)
                           ELSE IF rule.ret
                           THEN Checked(FALSE, TRUE, TRUE, FALSE,
                                        send_alarm_email(self))
                           ELSE Checked(FALSE, FALSE, TRUE, FALSE, 0)
                      ELSE IF rule.raised
                           THEN Checked(TRUE, FALSE, TRUE, FALSE, 0)
                           ELSE Checked(FALSE, rule.ret, TRUE, FALSE, 0)

check_alarm_absent_is_stale(self, send_email, latest_data, now) ==
    IF latest_data = None
    THEN IF send_email
         THEN Checked(FALSE, FALSE, FALSE, TRUE, send_old_data_email(self))
         ELSE Checked(FALSE, FALSE, FALSE, FALSE, 0)
    ELSE LET timestamp_str == latest_data[1]
             value == latest_data[2]
             timestamp == parse_timestamp(timestamp_str)
         IN  IF timestamp = None THEN Checked(FALSE, FALSE, FALSE, FALSE, 0)
             ELSE LET time_diff == now - timestamp[1]
                      rule == check_threshold(self, value)
                  IN  IF send_email
                      THEN IF time_diff > SecondsPerDay
                           THEN Checked(FALSE, FALSE, FALSE, TRUE,
                                        send_old_data_email(self))
                           ELSE IF rule.raised
                           THEN Checked(TRUE, FALSE, TRUE, FALSE, 0)
                           ELSE IF rule.ret
                           THEN Checked(FALSE, TRUE, TRUE, FALSE,
                                        send_alarm_email(self))
                           ELSE Checked(FALSE, FALSE, TRUE, FALSE, 0)
                      ELSE IF rule.raised
                           THEN Checked(TRUE, FALSE, TRUE, FALSE, 0)
                           ELSE Checked(FALSE, rule.ret, TRUE, FALSE, 0)

(* days_old > 1 with days_old = time_diff / (24 * 60 * 60) is              *)
(* time_diff > SecondsPerDay.  The value of a reading is a number, so      *)
(* float(value) returns it.                                                *)
check_alarm(self, send_email, latest_data, now) ==
    IF latest_data = None THEN Checked(FALSE, FALSE, FALSE, FALSE, 0)
    ELSE LET timestamp_str == latest_data[1]
             value == latest_data[2]
             timestamp == parse_timestamp(timestamp_str)
         IN  IF timestamp = None THEN Checked(FALSE, FALSE, FALSE, FALSE, 0)
             ELSE LET time_diff == now - timestamp[1]
                      rule == check_threshold(self, value)
                  IN  IF send_email
                      THEN IF time_diff > SecondsPerDay
                           THEN Checked(FALSE, FALSE, FALSE, TRUE,
                                        send_old_data_email(self))
                           ELSE IF rule.raised
                           THEN Checked(TRUE, FALSE, TRUE, FALSE, 0)
                           ELSE IF rule.ret
                           THEN Checked(FALSE, TRUE, TRUE, FALSE,
                                        send_alarm_email(self))
                           ELSE Checked(FALSE, FALSE, TRUE, FALSE, 0)
                      ELSE IF rule.raised
                           THEN Checked(TRUE, FALSE, TRUE, FALSE, 0)
                           ELSE Checked(FALSE, rule.ret, TRUE, FALSE, 0)

---------------------------------------------------------------------------
(* services/alarm_monitor.py: the registry as a value *)

(* The dict comprehension of save_alarms: the thresholds written are those *)
(* of the enum member, not the alarm's.                                    *)
save_alarms_dict(reg) ==
    [key \in DOMAIN reg |->
        [serial     |-> reg[key].serial_number,
         channel    |-> reg[key].channel,
         type       |-> reg[key].alarm_type,
         threshold1 |-> AlarmType_threshold1(reg[key].alarm_type),
         threshold2 |-> AlarmType_threshold2(reg[key].alarm_type),
         enabled    |-> reg[key].active,
         emails     |-> reg[key].emails,
         pozo       |-> reg[key].pozo]]

save_alarms_logging_error(reg, f, written) ==
    IF written
    THEN [exc |-> "", file |-> save_alarms_dict(reg)]
    ELSE [exc |-> "", file |-> f]

(* save_alarms: the file is overwritten with the dict; when the file       *)
(* cannot be opened for writing, the error is logged and raised again and  *)
(* the file is what it was.                                                *)
save_alarms(reg, f, written) ==
    IF written
    THEN [exc |-> "", file |-> save_alarms_dict(reg)]
    ELSE [exc |-> "OSError", file |-> f]

(* load_alarms: every entry that from_dict accepts, under the file's key.  *)
load_alarms(f) ==
    [alarm_id \in {k \in DOMAIN f : ~from_dict(f[k]).raised} |->
        from_dict(f[alarm_id]).self]

(* The new_alarms dict of create_alarm: a later record of the same id      *)
(* replaces an earlier one.                                                *)
RECURSIVE new_alarms(_)
new_alarms(alarm_data_list) ==
    IF alarm_data_list = <<>> THEN <<>>
    ELSE LET n == Len(alarm_data_list)
             alarm == from_dict(alarm_data_list[n]).self
         IN  (alarm.id :> alarm) @@ new_alarms(SubSeq(alarm_data_list, 1, n - 1))

(* An exception class leaving a method, "" when the method returns.  The   *)
(* handler "except Exception as e: raise ValueError(...)" of create_alarm, *)
(* update_alarm and delete_alarm turns every exception raised in the try   *)
(* block, KeyError included, into a ValueError.                            *)
raise_ValueError(exc) == IF exc = "" THEN "" ELSE "ValueError"

create_alarm_inserting_prefix(reg, json_data) ==
    LET failing == {i \in 1..Len(json_data) : from_dict(json_data[i]).raised}
        first == CHOOSE i \in failing : \A j \in failing : i <= j
    IN  IF failing # {}
        THEN [raised |-> TRUE, exc |-> raise_ValueError("KeyError"),
              alarms |-> new_alarms(SubSeq(json_data, 1, first - 1)) @@ reg,
              created_ids |-> <<>>]
        ELSE [raised |-> FALSE, exc |-> "",
              alarms |-> new_alarms(json_data) @@ reg,
              created_ids |-> [i \in 1..Len(json_data) |->
                                  from_dict(json_data[i]).self.id]]

create_alarm_replacing_registry(reg, json_data) ==
    IF \E i \in 1..Len(json_data) : from_dict(json_data[i]).raised
    THEN [raised |-> TRUE, exc |-> raise_ValueError("KeyError"),
          alarms |-> reg, created_ids |-> <<>>]
    ELSE [raised |-> FALSE, exc |-> "",
          alarms |-> new_alarms(json_data),
          created_ids |-> [i \in 1..Len(json_data) |->
                              from_dict(json_data[i]).self.id]]

create_alarm_keeping_existing(reg, json_data) ==
    IF \E i \in 1..Len(json_data) : from_dict(json_data[i]).raised
    THEN [raised |-> TRUE, exc |-> raise_ValueError("KeyError"),
          alarms |-> reg, created_ids |-> <<>>]
    ELSE [raised |-> FALSE, exc |-> "",
          alarms |-> reg @@ new_alarms(json_data),
          created_ids |-> [i \in 1..Len(json_data) |->
                              from_dict(json_data[i]).self.id]]

(* create_alarm up to the release of the lock. *)
create_alarm(reg, json_data) ==
    IF \E i \in 1..Len(json_data) : from_dict(json_data[i]).raised
    THEN [raised |-> TRUE, exc |-> raise_ValueError("KeyError"),
          alarms |-> reg, created_ids |-> <<>>]
    ELSE [raised |-> FALSE, exc |-> "",
          alarms |-> new_alarms(json_data) @@ reg,
          created_ids |-> [i \in 1..Len(json_data) |->
                              from_dict(json_data[i]).self.id]]

(* update_alarm up to the release of the lock: the alarm object is         *)
(* updated in place under its key, also when Alarm.update raises.          *)
update_alarm(reg, alarm_id, json_data) ==
    IF alarm_id \notin DOMAIN reg
    THEN [raised |-> TRUE, exc |-> raise_ValueError("KeyError"), alarms |-> reg]
    ELSE LET r == update(reg[alarm_id], json_data)
         IN  [raised |-> r.raised,
              exc |-> raise_ValueError(IF r.raised THEN "ValueError" ELSE ""),
              alarms |-> [reg EXCEPT ![alarm_id] = r.self]]

(* delete_alarm up to the release of the lock. *)
delete_alarm(reg, alarm_id) ==
    IF alarm_id \notin DOMAIN reg
    THEN [raised |-> TRUE, exc |-> raise_ValueError("KeyError"), alarms |-> reg]
    ELSE [raised |-> FALSE, exc |-> "",
          alarms |-> [k \in DOMAIN reg \ {alarm_id} |-> reg[k]]]

---------------------------------------------------------------------------
(* Inputs *)

Serials == {"100", "200"}

Channels == {"P1"}

AllIds == {Id(s, c) : s \in Serials, c \in Channels}

(* Iteration order of a registry dict. *)
KeyOrder == <<Id("100", "P1"), Id("200", "P1")>>

EmailLists == {<<"a@x.com">>}

Thresholds == {Some(MinThreshold), Some(MaxThreshold)}

Values == 0..MaxValue

(* datetime.now() at a check, and the readings the telemetry API returns:  *)
(* None, or (timestamp, value).                                            *)
Clock == 2 * SecondsPerDay

(* run_monitor.main before its loop: nothing was tried and no local of the *)
(* loops is bound.                                                         *)
InitMain ==
    /\ wall_clock = Clock
    /\ loop_time = None
    /\ next_run = None
    /\ sleep_until = None
    /\ retry_count = 0
    /\ exit_status = None
    /\ fetched = None
    /\ sweep = [active_alarms |-> <<>>, checked |-> <<>>, errors |-> <<>>]
    /\ starts = 0

Fresh == [format |-> "%Y-%m-%d %H:%M", instant |-> Clock - 3600]

OneDayOld == [format |-> "%Y-%m-%d %H:%M:%S", instant |-> Clock - SecondsPerDay]

Old == [format |-> "%Y-%m-%d %H:%M", instant |-> Clock - SecondsPerDay - 1]

Unparseable == [format |-> "%d/%m/%Y %H:%M", instant |-> Clock - 3600]

Readings ==
    {None} \cup {<<Fresh, v>> : v \in Values}
           \cup {<<ts, v>> : ts \in {OneDayOld, Old, Unparseable},
                             v \in {0, MaxValue}}

Entry(serial, type, threshold1, threshold2, enabled, emails) ==
    [serial |-> serial, channel |-> "P1", type |-> type,
     threshold1 |-> threshold1, threshold2 |-> threshold2,
     enabled |-> enabled, emails |-> emails, pozo |-> ""]

(* Contents of data/alarms.json when the service starts: no file (or no    *)
(* alarm), files in the documented schema, and a file as save_alarms       *)
(* writes it.                                                              *)
InitFiles ==
    {<<>>,
     Id("100", "P1") :> Entry("100", "BELOW", Some(MinThreshold), None,
                              TRUE, <<"a@x.com">>),
     Id("100", "P1") :> Entry("100", "BELOW", None, None, TRUE, <<"a@x.com">>)}

DeployInitFiles ==
    InitFiles \cup
    {(Id("100", "P1") :> Entry("100", "BETWEEN", Some(MinThreshold),
                               Some(MaxThreshold), TRUE, <<"a@x.com">>))
        @@ (Id("200", "P1") :> Entry("200", "ABOVE", Some(MinThreshold), None,
                                     TRUE, <<>>))}

(* Records for POST /alarms. *)
CreatePayloads ==
    {("serial" :> "100") @@ ("channel" :> c) @@ ("type" :> t) @@ t1 @@ t2 @@ e :
        c \in Channels, t \in AlarmType \cup {"NEAR"},
        t1 \in Opt("threshold1", {Some(MinThreshold)}),
        t2 \in Opt("threshold2", {Some(MaxThreshold)}),
        e \in Opt("emails", EmailLists)}

BatchPayloads ==
    {p \in CreatePayloads :
        /\ p["type"] \in {"BELOW", "ABOVE", "NEAR"}
        /\ DOMAIN p = {"serial", "channel", "type", "threshold1"}}

CreateInputs ==
    {<<p>> : p \in CreatePayloads}
        \cup {<<p, q>> : p \in BatchPayloads, q \in BatchPayloads}

(* Payloads for PUT /alarms/{alarm_id}. *)
UpdatePayloads ==
    {t @@ t1 @@ t2 : t \in Opt("type", {"BETWEEN", "NEAR"}),
                     t1 \in Opt("threshold1", Thresholds),
                     t2 \in Opt("threshold2", {Some(MaxThreshold)})}
        \cup {"serial" :> "200"}

(* The small inputs of the specifications that interleave processes or     *)
(* threads.                                                                *)
SmallCreateInputs ==
    {<<[serial |-> "100", channel |-> "P1", type |-> "BELOW",
        threshold1 |-> Some(MinThreshold), emails |-> <<"a@x.com">>]>>,
     <<[serial |-> "200", channel |-> "P1", type |-> "ABOVE",
        threshold1 |-> Some(MinThreshold)]>>}

(* Batches for the deployment: two records of distinct ids, all valid or   *)
(* with a record that from_dict rejects in first or in last place.         *)
DeployCreateInputs ==
    SmallCreateInputs \cup
    {<<[serial |-> "100", channel |-> "P1", type |-> "BELOW",
        threshold1 |-> Some(MinThreshold), emails |-> <<"a@x.com">>],
       [serial |-> "200", channel |-> "P1", type |-> "ABOVE",
        threshold1 |-> Some(MinThreshold)]>>,
     <<[serial |-> "100", channel |-> "P1", type |-> "BELOW",
        threshold1 |-> Some(MinThreshold), emails |-> <<"a@x.com">>],
       [serial |-> "200", channel |-> "P1", type |-> "BETWEEN",
        threshold1 |-> Some(MinThreshold)]>>,
     <<[serial |-> "100", channel |-> "P1", type |-> "NEAR",
        threshold1 |-> Some(MinThreshold)],
       [serial |-> "200", channel |-> "P1", type |-> "ABOVE",
        threshold1 |-> Some(MinThreshold)]>>}

SmallUpdatePayloads == {"enabled" :> FALSE}

---------------------------------------------------------------------------
(* The facade process, one request at a time: each handler as a whole (the *)
(* call of save_alarms that ends create, update and delete included).      *)

(* The HTTP status of PUT and of DELETE /alarms/{alarm_id}: "except        *)
(* KeyError" answers 404 and "except Exception" answers 500.               *)
alarm_endpoint_status(exc) ==
    IF exc = "" THEN 200 ELSE IF exc = "KeyError" THEN 404 ELSE 500

Threads == {"t1", "t2"}

IdlePc == [t \in Threads |-> "idle"]

NoDicts == [t \in Threads |-> <<>>]

(* What happened to the write of the file that ends create_alarm,         *)
(* update_alarm and delete_alarm: save_alarms is not reached when the call *)
(* has raised before, and otherwise the file could be written or not.      *)
Flush(r, written) ==
    IF r.raised THEN "none" ELSE IF written THEN "written" ELSE "failed"

CreateAlarmWrite(json_data, written) ==
    LET r == create_alarm(alarms, json_data)
        s == save_alarms(r.alarms, file, written)
        exc == IF r.raised THEN r.exc ELSE raise_ValueError(s.exc)
    IN  /\ pc = IdlePc
        /\ alarms' = r.alarms
        /\ file' = IF r.raised THEN file ELSE s.file
        /\ last' = [op |-> "create_alarm", raised |-> exc # "",
                    created_ids |-> IF exc # "" THEN <<>> ELSE r.created_ids,
                    flush |-> Flush(r, written)]
        /\ UNCHANGED <<mainVars, monAlarms, monPc, active_alarms, pc, alarm_dict>>

UpdateAlarmWrite(alarm_id, json_data, written) ==
    LET r == update_alarm(alarms, alarm_id, json_data)
        s == save_alarms(r.alarms, file, written)
        exc == IF r.raised THEN r.exc ELSE raise_ValueError(s.exc)
    IN  /\ pc = IdlePc
        /\ alarms' = r.alarms
        /\ file' = IF r.raised THEN file ELSE s.file
        /\ last' = [op |-> "update_alarm", raised |-> exc # "",
                    alarm_id |-> alarm_id,
                    status |-> alarm_endpoint_status(exc),
                    flush |-> Flush(r, written)]
        /\ UNCHANGED <<mainVars, monAlarms, monPc, active_alarms, pc, alarm_dict>>

DeleteAlarmWrite(alarm_id, written) ==
    LET r == delete_alarm(alarms, alarm_id)
        s == save_alarms(r.alarms, file, written)
        exc == IF r.raised THEN r.exc ELSE raise_ValueError(s.exc)
    IN  /\ pc = IdlePc
        /\ alarms' = r.alarms
        /\ file' = IF r.raised THEN file ELSE s.file
        /\ last' = [op |-> "delete_alarm", raised |-> exc # "",
                    alarm_id |-> alarm_id,
                    status |-> alarm_endpoint_status(exc),
                    flush |-> Flush(r, written)]
        /\ UNCHANGED <<mainVars, monAlarms, monPc, active_alarms, pc, alarm_dict>>

(* The handlers when the file can be written. *)
CreateAlarm(json_data) == CreateAlarmWrite(json_data, TRUE)

UpdateAlarm(alarm_id, json_data) == UpdateAlarmWrite(alarm_id, json_data, TRUE)

DeleteAlarm(alarm_id) == DeleteAlarmWrite(alarm_id, TRUE)

(* test_alarm passes send_email=True to check_alarm. *)
TestAlarm(alarm_id, latest_data) ==
    /\ pc = IdlePc
    /\ last' = IF alarm_id \notin DOMAIN alarms
               THEN [op |-> "test_alarm", found |-> FALSE, alarm_id |-> alarm_id]
               ELSE [op |-> "test_alarm", found |-> TRUE, alarm_id |-> alarm_id,
                     alarm |-> alarms[alarm_id], latest_data |-> latest_data,
                     now |-> Clock,
                     check |-> check_alarm(alarms[alarm_id], TRUE,
                                           latest_data, Clock)]
    /\ UNCHANGED <<mainVars, alarms, file, monAlarms, monPc, active_alarms, pc, alarm_dict>>

(* The facade process is started again: AlarmMonitor.__init__ loads the    *)
(* registry from the file.                                                 *)
FacadeStart ==
    /\ pc = IdlePc
    /\ alarms' = load_alarms(file)
    /\ last' = [op |-> "load_alarms"]
    /\ UNCHANGED <<mainVars, file, monAlarms, monPc, active_alarms, pc, alarm_dict>>

(* Both processes start from the same file (run_services.main).            *)
Init ==
    /\ file \in InitFiles
    /\ alarms = load_alarms(file)
    /\ monAlarms = load_alarms(file)
    /\ monPc = "sleep"
    /\ active_alarms = <<>>
    /\ pc = IdlePc
    /\ alarm_dict = NoDicts
    /\ InitMain
    /\ last = [op |-> "load_alarms"]

Next ==
    \/ \E json_data \in CreateInputs : CreateAlarm(json_data)
    \/ \E alarm_id \in AllIds, json_data \in UpdatePayloads :
            UpdateAlarm(alarm_id, json_data)
    \/ \E alarm_id \in AllIds : DeleteAlarm(alarm_id)
    \/ \E alarm_id \in AllIds, latest_data \in Readings :
            TestAlarm(alarm_id, latest_data)
    \/ FacadeStart

Spec == Init /\ [][Next]_vars

(* create_alarm as its caller sees it: the argument, the registry the     *)
(* call found and what the call returned.                                  *)
CreateAlarmOver(json_data) ==
    LET r == create_alarm(alarms, json_data)
    IN  /\ pc = IdlePc
        /\ alarms' = r.alarms
        /\ file' = IF r.raised THEN file ELSE save_alarms_dict(r.alarms)
        /\ last' = [op |-> "create_alarm", raised |-> r.raised,
                    json_data |-> json_data, alarms |-> alarms,
                    created_ids |-> r.created_ids]
        /\ UNCHANGED <<mainVars, monAlarms, monPc, active_alarms, pc,
                       alarm_dict>>

(* Records of 100_P1 that differ in type, threshold and recipients, a      *)
(* record of 200_P1 and a record of an unknown type; alone and in lists    *)
(* that hold an id once or twice.                                          *)
CollidingRecords ==
    [below |-> [serial |-> "100", channel |-> "P1", type |-> "BELOW",
                threshold1 |-> Some(MinThreshold), emails |-> <<"a@x.com">>],
     above |-> [serial |-> "100", channel |-> "P1", type |-> "ABOVE",
                threshold1 |-> Some(MaxThreshold)],
     other |-> [serial |-> "200", channel |-> "P1", type |-> "ABOVE",
                threshold1 |-> Some(MinThreshold)],
     near  |-> [serial |-> "100", channel |-> "P1", type |-> "NEAR",
                threshold1 |-> Some(MinThreshold)]]

CollidingInputs ==
    LET rec == CollidingRecords
    IN  {<<rec.below>>, <<rec.above>>, <<rec.other>>, <<rec.near>>,
         <<rec.below, rec.above>>, <<rec.above, rec.below>>,
         <<rec.above, rec.other, rec.below>>, <<rec.other, rec.near>>}

NextOver ==
    \/ \E json_data \in CollidingInputs : CreateAlarmOver(json_data)
    \/ \E alarm_id \in AllIds : DeleteAlarm(alarm_id)
    \/ FacadeStart

SpecOver == Init /\ [][NextOver]_vars

(* The facade process when the write of the file can fail. *)
NextFlush ==
    \/ \E json_data \in SmallCreateInputs, written \in BOOLEAN :
            CreateAlarmWrite(json_data, written)
    \/ \E alarm_id \in AllIds, json_data \in SmallUpdatePayloads,
          written \in BOOLEAN :
            UpdateAlarmWrite(alarm_id, json_data, written)
    \/ \E alarm_id \in AllIds, written \in BOOLEAN :
            DeleteAlarmWrite(alarm_id, written)
    \/ FacadeStart

SpecFlush == Init /\ [][NextFlush]_vars

---------------------------------------------------------------------------
(* The monitor process (run_monitor.main, started by run_services.main as  *)
(* a multiprocessing.Process): AlarmMonitor.run on the registry of its own *)
(* process.                                                                *)

ActiveKeys(reg) == {k \in DOMAIN reg : reg[k].active}

(* check_alarms, up to the release of the lock: the list of the active     *)
(* alarms, taken when time.sleep returns.                                  *)
MonitorCheckAlarms ==
    /\ monPc = "sleep"
    /\ monPc' = "check_alarms"
    /\ active_alarms' = SelectSeq(KeyOrder, LAMBDA k : k \in ActiveKeys(monAlarms))
    /\ last' = [op |-> "check_alarms", active_alarms |-> active_alarms']
    /\ UNCHANGED <<mainVars, alarms, file, monAlarms, pc, alarm_dict>>

(* One turn of the loop of check_alarms: alarm.check_alarm() on the next   *)
(* alarm of the list; an exception is logged and the loop goes on.         *)
MonitorCheckAlarm(latest_data) ==
    /\ monPc = "check_alarms"
    /\ active_alarms # <<>>
    /\ active_alarms' = Tail(active_alarms)
    /\ last' = [op |-> "check_alarm", alarm_id |-> Head(active_alarms),
                alarm |-> monAlarms[Head(active_alarms)],
                latest_data |-> latest_data, now |-> Clock,
                check |-> check_alarm(monAlarms[Head(active_alarms)], TRUE,
                                      latest_data, Clock)]
    /\ UNCHANGED <<mainVars, alarms, file, monAlarms, monPc, pc, alarm_dict>>

(* check_alarms returns and run computes the next run time and sleeps.     *)
MonitorSleep ==
    /\ monPc = "check_alarms"
    /\ active_alarms = <<>>
    /\ monPc' = "sleep"
    /\ last' = [op |-> "run"]
    /\ UNCHANGED <<mainVars, alarms, file, monAlarms, active_alarms, pc, alarm_dict>>

InitDeploy ==
    /\ file \in DeployInitFiles
    /\ alarms = load_alarms(file)
    /\ monAlarms = load_alarms(file)
    /\ monPc = "sleep"
    /\ active_alarms = <<>>
    /\ pc = IdlePc
    /\ alarm_dict = NoDicts
    /\ InitMain
    /\ last = [op |-> "load_alarms"]

NextDeploy ==
    \/ \E json_data \in DeployCreateInputs : CreateAlarm(json_data)
    \/ \E alarm_id \in AllIds, json_data \in SmallUpdatePayloads :
            UpdateAlarm(alarm_id, json_data)
    \/ \E alarm_id \in AllIds : DeleteAlarm(alarm_id)
    \/ MonitorCheckAlarms
    \/ \E latest_data \in Readings : MonitorCheckAlarm(latest_data)
    \/ MonitorSleep

SpecDeploy == InitDeploy /\ [][NextDeploy]_vars

(* The checks of both kinds on the registries of a deployment: the test    *)
(* check of POST /alarms/{alarm_id}/test in the facade process and the     *)
(* live checks of the sweeps in the monitor process.                       *)
NextCheck ==
    \/ \E alarm_id \in AllIds, latest_data \in Readings :
            TestAlarm(alarm_id, latest_data)
    \/ MonitorCheckAlarms
    \/ \E latest_data \in Readings : MonitorCheckAlarm(latest_data)
    \/ MonitorSleep

SpecCheck == InitDeploy /\ [][NextCheck]_vars

(* PUT /alarms/{alarm_id}: the endpoint calls update_alarm with the body   *)
(* of the request and answers with a status.                               *)
PutAlarm(alarm_id, json_data) ==
    LET r == update_alarm(alarms, alarm_id, json_data)
    IN  /\ pc = IdlePc
        /\ alarms' = r.alarms
        /\ file' = IF r.raised THEN file ELSE save_alarms_dict(r.alarms)
        /\ last' = [op |-> "PUT /alarms", alarm_id |-> alarm_id,
                    json_data |-> json_data, alarms |-> alarms,
                    status |-> alarm_endpoint_status(r.exc)]
        /\ UNCHANGED <<mainVars, monAlarms, monPc, active_alarms, pc,
                       alarm_dict>>

(* Bodies of PUT requests: the empty one, and bodies that change the       *)
(* serial (so that the alarm's id is no longer its key), the flag, the     *)
(* recipients, the pozo and the first threshold.                           *)
PutPayloads ==
    {<<>>, "serial" :> "200", "enabled" :> FALSE, "emails" :> <<>>,
     "pozo" :> "Pozo 1", "threshold1" :> Some(MaxThreshold)}

NextPut ==
    \/ \E alarm_id \in AllIds, json_data \in PutPayloads :
            PutAlarm(alarm_id, json_data)
    \/ FacadeStart

SpecPut == InitDeploy /\ [][NextPut]_vars

---------------------------------------------------------------------------
(* Concurrent callers of the registry in the facade process: a call is     *)
(* three steps, the section of create/update/delete under _alarms_lock,    *)
(* the section of save_alarms under _alarms_lock, and the write of the     *)
(* file after the lock was released.                                       *)

Goto(t, label) == pc' = [pc EXCEPT ![t] = label]

(* The threads holding _alarms_lock between two steps.  A "with            *)
(* self._alarms_lock" block that is one step takes and releases the lock   *)
(* within the step; get_alarm_value calls get_value, which fetches the     *)
(* latest reading, inside its block.                                       *)
alarms_lock == {t \in Threads : pc[t] = "get_value"}

Ended(t, r, op) ==
    IF r.raised
    THEN /\ last' = [op |-> op, raised |-> TRUE, thread |-> t]
         /\ UNCHANGED pc
    ELSE /\ Goto(t, "save_alarms")
         /\ UNCHANGED last

ThreadCreate(t, json_data) ==
    LET r == create_alarm(alarms, json_data)
    IN  /\ pc[t] = "idle"
        /\ alarms_lock = {}
        /\ alarms' = r.alarms
        /\ Ended(t, r, "create_alarm")
        /\ UNCHANGED <<mainVars, file, monAlarms, monPc, active_alarms, alarm_dict>>

ThreadUpdate(t, alarm_id, json_data) ==
    LET r == update_alarm(alarms, alarm_id, json_data)
    IN  /\ pc[t] = "idle"
        /\ alarms_lock = {}
        /\ alarms' = r.alarms
        /\ Ended(t, r, "update_alarm")
        /\ UNCHANGED <<mainVars, file, monAlarms, monPc, active_alarms, alarm_dict>>

ThreadDelete(t, alarm_id) ==
    LET r == delete_alarm(alarms, alarm_id)
    IN  /\ pc[t] = "idle"
        /\ alarms_lock = {}
        /\ alarms' = r.alarms
        /\ Ended(t, r, "delete_alarm")
        /\ UNCHANGED <<mainVars, file, monAlarms, monPc, active_alarms, alarm_dict>>

(* save_alarms: alarm_dict is built while holding the lock. *)
ThreadSaveSnapshot(t) ==
    /\ pc[t] = "save_alarms"
    /\ alarms_lock = {}
    /\ alarm_dict' = [alarm_dict EXCEPT ![t] = save_alarms_dict(alarms)]
    /\ Goto(t, "write")
    /\ UNCHANGED <<mainVars, alarms, file, monAlarms, monPc, active_alarms, last>>

(* save_alarms: json.dump of alarm_dict into the file, after the lock was  *)
(* released; the call returns.                                             *)
ThreadSaveWrite(t) ==
    /\ pc[t] = "write"
    /\ file' = alarm_dict[t]
    /\ alarm_dict' = [alarm_dict EXCEPT ![t] = <<>>]
    /\ Goto(t, "idle")
    /\ last' = [op |-> "save_alarms", raised |-> FALSE, thread |-> t]
    /\ UNCHANGED <<mainVars, alarms, monAlarms, monPc, active_alarms>>

NextConc ==
    \E t \in Threads :
        \/ \E json_data \in SmallCreateInputs : ThreadCreate(t, json_data)
        \/ \E alarm_id \in AllIds, json_data \in SmallUpdatePayloads :
                ThreadUpdate(t, alarm_id, json_data)
        \/ \E alarm_id \in AllIds : ThreadDelete(t, alarm_id)
        \/ ThreadSaveSnapshot(t)
        \/ ThreadSaveWrite(t)

SpecConc == Init /\ [][NextConc]_vars

---------------------------------------------------------------------------
(* The Alarm class on its own: alarms are built from records by from_dict  *)
(* and kept under their id, and set_thresholds is called on them.          *)

(* Records for from_dict: every combination of type, threshold1 (missing,  *)
(* null or a number) and threshold2, records that lack a required key, and *)
(* a record that gives the optional fields.                                *)
AlarmRecords ==
    {("serial" :> "100") @@ ("channel" :> "P1") @@ ("type" :> t) @@ t1 @@ t2 :
        t \in AlarmType,
        t1 \in Opt("threshold1", {None} \cup Thresholds),
        t2 \in Opt("threshold2", Thresholds)}
    \cup {[channel |-> "P1", type |-> "BELOW", threshold1 |-> Some(MinThreshold)],
          [serial |-> "100", type |-> "BELOW", threshold1 |-> Some(MinThreshold)],
          [serial |-> "100", channel |-> "P1", threshold1 |-> Some(MinThreshold)],
          [serial |-> "100", channel |-> "P1", type |-> "ABOVE",
           threshold1 |-> Some(MinThreshold), emails |-> <<"a@x.com">>,
           pozo |-> "Pozo 1", enabled |-> FALSE]}

AlarmFromDict(data) ==
    LET r == from_dict(data)
    IN  /\ pc = IdlePc
        /\ alarms' = IF r.raised THEN alarms ELSE (r.self.id :> r.self) @@ alarms
        /\ last' = [op |-> "from_dict", data |-> data, raised |-> r.raised,
                    alarm |-> r.self]
        /\ UNCHANGED <<mainVars, file, monAlarms, monPc, active_alarms, pc, alarm_dict>>

AlarmSetThresholds(alarm_id, threshold1, threshold2) ==
    /\ pc = IdlePc
    /\ alarm_id \in DOMAIN alarms
    /\ LET r == set_thresholds(alarms[alarm_id], threshold1, threshold2)
       IN  /\ alarms' = [alarms EXCEPT ![alarm_id] = r.self]
           /\ last' = [op |-> "set_thresholds", before |-> alarms[alarm_id],
                       threshold1 |-> threshold1, threshold2 |-> threshold2,
                       raised |-> r.raised, alarm |-> r.self]
    /\ UNCHANGED <<mainVars, file, monAlarms, monPc, active_alarms, pc, alarm_dict>>

NextAlarm ==
    \/ \E data \in AlarmRecords : AlarmFromDict(data)
    \/ \E alarm_id \in AllIds, threshold1 \in {None} \cup Thresholds,
          threshold2 \in {None} \cup Thresholds :
            AlarmSetThresholds(alarm_id, threshold1, threshold2)

SpecAlarm == Init /\ [][NextAlarm]_vars

---------------------------------------------------------------------------
(* Readers of the registry next to update_alarm, in the facade process:    *)
(* GET /alarms takes the copy get_alarms returns and then reads the fields *)
(* of every alarm of the copy, without the lock.  The copy is shallow: its *)
(* values are the alarm objects of the registry, which update_alarm        *)
(* changes in place.  No alarm is created or deleted here, so the object   *)
(* of a key is the alarm the registry holds under that key.                *)

ReadUpdatePayloads ==
    {[type |-> "ABOVE", enabled |-> FALSE],
     [emails |-> <<>>, pozo |-> "Pozo 1"]}

(* The entry of GET /alarms for one alarm: the fields read first and the   *)
(* fields read after them.                                                 *)
listing_head(alarm) ==
    [serial     |-> alarm.serial_number,
     channel    |-> alarm.channel,
     type       |-> alarm.alarm_type,
     threshold1 |-> AlarmType_threshold1(alarm.alarm_type),
     threshold2 |-> AlarmType_threshold2(alarm.alarm_type)]

listing_tail(alarm) ==
    [active      |-> alarm.active,
     emails      |-> alarm.emails,
     pozo        |-> alarm.pozo,
     logger_name |-> alarm.logger_name]

(* get_alarms: the copy of the registry, taken under the lock.  "copied"   *)
(* keeps the alarms as they were at that moment.                           *)
ThreadGetAlarms(t) ==
    /\ pc[t] = "idle"
    /\ alarms_lock = {}
    /\ alarm_dict' = [alarm_dict EXCEPT ![t] =
                         [copied |-> alarms,
                          listing |-> [k \in DOMAIN alarms |-> <<>>]]]
    /\ Goto(t, "get_alarms")
    /\ UNCHANGED <<mainVars, alarms, file, monAlarms, monPc, active_alarms, last>>

ThreadListHead(t) ==
    /\ pc[t] = "get_alarms"
    /\ alarm_dict' = [alarm_dict EXCEPT ![t].listing =
                         [k \in DOMAIN alarm_dict[t].copied |->
                             listing_head(alarms[k])]]
    /\ Goto(t, "listing")
    /\ UNCHANGED <<mainVars, alarms, file, monAlarms, monPc, active_alarms, last>>

ThreadListTail(t) ==
    /\ pc[t] = "listing"
    /\ last' = [op |-> "get_alarms", thread |-> t,
                copied |-> alarm_dict[t].copied,
                listing |-> [k \in DOMAIN alarm_dict[t].copied |->
                                alarm_dict[t].listing[k] @@
                                listing_tail(alarms[k])]]
    /\ alarm_dict' = [alarm_dict EXCEPT ![t] = <<>>]
    /\ Goto(t, "idle")
    /\ UNCHANGED <<mainVars, alarms, file, monAlarms, monPc, active_alarms>>

NextRead ==
    \E t \in Threads :
        \/ \E alarm_id \in AllIds, json_data \in ReadUpdatePayloads :
                ThreadUpdate(t, alarm_id, json_data)
        \/ ThreadSaveSnapshot(t)
        \/ ThreadSaveWrite(t)
        \/ ThreadGetAlarms(t)
        \/ ThreadListHead(t)
        \/ ThreadListTail(t)

SpecRead == Init /\ [][NextRead]_vars

---------------------------------------------------------------------------
(* Callers that go through the registry next to create_alarm and           *)
(* delete_alarm, in the facade process: load_logger_names (POST            *)
(* /refresh-logger-names, GET /logger-names) and get_alarm_value (GET      *)
(* /alarm/{alarm_id}/value).                                               *)

(* The name get_all_logs gives for a serial. *)
get_logger_name(serial_number) == "Logger " \o serial_number

(* load_logger_names: "for alarm in self.alarms.values()" starts, with no  *)
(* lock taken.  The iterator remembers the size of the dict.               *)
ThreadLoadLoggerNames(t) ==
    /\ pc[t] = "idle"
    /\ alarm_dict' = [alarm_dict EXCEPT ![t] =
                         [used |-> Cardinality(DOMAIN alarms), visited |-> {}]]
    /\ Goto(t, "load_logger_names")
    /\ UNCHANGED <<mainVars, alarms, file, monAlarms, monPc, active_alarms, last>>

(* One turn of the loop: the iterator raises RuntimeError when the size of *)
(* the dict has changed, ends when no alarm is left, and otherwise gives   *)
(* the next alarm, whose logger_name is assigned.                          *)
ThreadNextLoggerName(t) ==
    /\ pc[t] = "load_logger_names"
    /\ LET rest == SelectSeq(KeyOrder,
                      LAMBDA k : k \in DOMAIN alarms
                                 /\ k \notin alarm_dict[t].visited)
       IN  IF Cardinality(DOMAIN alarms) # alarm_dict[t].used
           THEN /\ last' = [op |-> "load_logger_names", raised |-> TRUE,
                            thread |-> t]
                /\ alarm_dict' = [alarm_dict EXCEPT ![t] = <<>>]
                /\ Goto(t, "idle")
                /\ UNCHANGED alarms
           ELSE IF rest = <<>>
           THEN /\ last' = [op |-> "load_logger_names", raised |-> FALSE,
                            thread |-> t]
                /\ alarm_dict' = [alarm_dict EXCEPT ![t] = <<>>]
                /\ Goto(t, "idle")
                /\ UNCHANGED alarms
           ELSE /\ alarms' = [alarms EXCEPT ![Head(rest)].logger_name =
                       get_logger_name(alarms[Head(rest)].serial_number)]
                /\ alarm_dict' = [alarm_dict EXCEPT ![t].visited =
                                     @ \cup {Head(rest)}]
                /\ UNCHANGED <<mainVars, pc, last>>
    /\ UNCHANGED <<mainVars, file, monAlarms, monPc, active_alarms>>

(* get_alarm_value: the lock is taken, an unknown id raises KeyError, and  *)
(* get_value starts the fetch of the latest reading inside the block.      *)
ThreadGetAlarmValue(t, alarm_id) ==
    /\ pc[t] = "idle"
    /\ alarms_lock = {}
    /\ IF alarm_id \notin DOMAIN alarms
       THEN /\ last' = [op |-> "get_alarm_value", raised |-> TRUE,
                        thread |-> t, alarm_id |-> alarm_id]
            /\ UNCHANGED <<mainVars, pc, alarm_dict>>
       ELSE /\ alarm_dict' = [alarm_dict EXCEPT ![t] = [alarm_id |-> alarm_id]]
            /\ Goto(t, "get_value")
            /\ UNCHANGED last
    /\ UNCHANGED <<mainVars, alarms, file, monAlarms, monPc, active_alarms>>

(* The fetch returns: get_value returns float(value) or None, the block    *)
(* ends and the lock is released.                                          *)
ThreadGetValueReturn(t, latest_data) ==
    /\ pc[t] = "get_value"
    /\ last' = [op |-> "get_alarm_value", raised |-> FALSE, thread |-> t,
                alarm_id |-> alarm_dict[t].alarm_id,
                value |-> IF latest_data = None THEN None
                          ELSE Some(latest_data[2])]
    /\ alarm_dict' = [alarm_dict EXCEPT ![t] = <<>>]
    /\ Goto(t, "idle")
    /\ UNCHANGED <<mainVars, alarms, file, monAlarms, monPc, active_alarms>>

NextLock ==
    \E t \in Threads :
        \/ \E json_data \in SmallCreateInputs : ThreadCreate(t, json_data)
        \/ \E alarm_id \in AllIds : ThreadDelete(t, alarm_id)
        \/ ThreadSaveSnapshot(t)
        \/ ThreadSaveWrite(t)
        \/ ThreadLoadLoggerNames(t)
        \/ ThreadNextLoggerName(t)
        \/ \E alarm_id \in AllIds : ThreadGetAlarmValue(t, alarm_id)
        \/ \E latest_data \in {None, <<Fresh, MaxValue>>} :
                ThreadGetValueReturn(t, latest_data)

SpecLock == Init /\ [][NextLock]_vars

---------------------------------------------------------------------------
(* Notifications in one process: the loop of check_alarms on one thread    *)
(* and callers of test_alarm on others, all on the same registry.  A check *)
(* runs outside _alarms_lock; the call of send_email it makes is a step of *)
(* its own, between the decision to notify and the return of the check.    *)

NotifyReadings == {None, <<Fresh, MaxValue>>, <<Old, 0>>}

(* check_alarms, up to the release of the lock. *)
SweepSnapshot ==
    /\ monPc = "sleep"
    /\ alarms_lock = {}
    /\ monPc' = "check_alarms"
    /\ active_alarms' = SelectSeq(KeyOrder, LAMBDA k : k \in ActiveKeys(alarms))
    /\ last' = [op |-> "check_alarms", active_alarms |-> active_alarms']
    /\ UNCHANGED <<mainVars, alarms, file, monAlarms, pc, alarm_dict>>

(* alarm.check_alarm() of the sweep, up to the call of send_email or, when *)
(* there is nothing to send, to its end.                                   *)
SweepCheck(reading) ==
    LET alarm_id == Head(active_alarms)
        check == check_alarm(alarms[alarm_id], TRUE, reading, Clock)
    IN  /\ monPc = "check_alarms"
        /\ active_alarms # <<>>
        /\ IF check.sent > 0
           THEN /\ monPc' = "send_email"
                /\ UNCHANGED <<active_alarms, last>>
           ELSE /\ active_alarms' = Tail(active_alarms)
                /\ last' = [op |-> "check_alarm", alarm_id |-> alarm_id,
                            sent |-> 0]
                /\ UNCHANGED monPc
        /\ UNCHANGED <<mainVars, alarms, file, monAlarms, pc, alarm_dict>>

(* send_email returns to the check of the sweep, which ends. *)
SweepSent ==
    /\ monPc = "send_email"
    /\ monPc' = "check_alarms"
    /\ active_alarms' = Tail(active_alarms)
    /\ last' = [op |-> "check_alarm", alarm_id |-> Head(active_alarms),
                sent |-> 1]
    /\ UNCHANGED <<mainVars, alarms, file, monAlarms, pc, alarm_dict>>

(* check_alarms returns and run sleeps. *)
SweepReturn ==
    /\ monPc = "check_alarms"
    /\ active_alarms = <<>>
    /\ monPc' = "sleep"
    /\ last' = [op |-> "run"]
    /\ UNCHANGED <<mainVars, alarms, file, monAlarms, active_alarms, pc,
                   alarm_dict>>

(* test_alarm: the lookup under the lock; an unknown id raises KeyError. *)
ThreadTestAlarm(t, alarm_id) ==
    /\ pc[t] = "idle"
    /\ alarms_lock = {}
    /\ IF alarm_id \notin DOMAIN alarms
       THEN /\ last' = [op |-> "test_alarm", raised |-> TRUE, thread |-> t,
                        alarm_id |-> alarm_id]
            /\ UNCHANGED <<pc, alarm_dict>>
       ELSE /\ alarm_dict' = [alarm_dict EXCEPT ![t] = [alarm_id |-> alarm_id]]
            /\ Goto(t, "check_alarm")
            /\ UNCHANGED last
    /\ UNCHANGED <<mainVars, alarms, file, monAlarms, monPc, active_alarms>>

(* alarm.check_alarm(send_email=True) of test_alarm, after the lock was    *)
(* released, up to the call of send_email or to its end.                   *)
ThreadTestCheck(t, reading) ==
    LET alarm_id == alarm_dict[t].alarm_id
        check == check_alarm(alarms[alarm_id], TRUE, reading, Clock)
    IN  /\ pc[t] = "check_alarm"
        /\ IF check.sent > 0
           THEN /\ Goto(t, "send_email")
                /\ UNCHANGED <<alarm_dict, last>>
           ELSE /\ Goto(t, "idle")
                /\ alarm_dict' = [alarm_dict EXCEPT ![t] = <<>>]
                /\ last' = [op |-> "test_alarm", raised |-> FALSE,
                            thread |-> t, alarm_id |-> alarm_id, sent |-> 0]
        /\ UNCHANGED <<mainVars, alarms, file, monAlarms, monPc,
                       active_alarms>>

(* send_email returns to the check of test_alarm, which ends. *)
ThreadTestSent(t) ==
    /\ pc[t] = "send_email"
    /\ Goto(t, "idle")
    /\ alarm_dict' = [alarm_dict EXCEPT ![t] = <<>>]
    /\ last' = [op |-> "test_alarm", raised |-> FALSE, thread |-> t,
                alarm_id |-> alarm_dict[t].alarm_id, sent |-> 1]
    /\ UNCHANGED <<mainVars, alarms, file, monAlarms, monPc, active_alarms>>

NextNotify ==
    \/ SweepSnapshot
    \/ \E reading \in NotifyReadings : SweepCheck(reading)
    \/ SweepSent
    \/ SweepReturn
    \/ \E t \in Threads :
            \/ \E alarm_id \in AllIds : ThreadTestAlarm(t, alarm_id)
            \/ \E reading \in NotifyReadings : ThreadTestCheck(t, reading)
            \/ ThreadTestSent(t)

SpecNotify == InitDeploy /\ [][NextNotify]_vars

---------------------------------------------------------------------------
(* get_alarms and its callers next to create_alarm and delete_alarm.  A    *)
(* dict a caller holds is either the registry itself or a dict of its own  *)
(* with keys of its own.                                                   *)

get_alarms_without_copy(reg) == [registry |-> TRUE, keys |-> DOMAIN reg]

(* get_alarms: self.alarms.copy(), taken under the lock. *)
get_alarms(reg) == [registry |-> FALSE, keys |-> DOMAIN reg]

(* The keys of a dict a caller holds. *)
dict_keys(d, reg) == IF d.registry THEN DOMAIN reg ELSE d.keys

ThreadSnapshot(t) ==
    /\ pc[t] = "idle"
    /\ alarms_lock = {}
    /\ alarm_dict' = [alarm_dict EXCEPT ![t] = get_alarms(alarms)]
    /\ Goto(t, "snapshot")
    /\ UNCHANGED <<mainVars, alarms, file, monAlarms, monPc, active_alarms,
                   last>>

(* The caller deletes a key from the dict get_alarms returned. *)
ThreadSnapshotDelete(t, k) ==
    /\ pc[t] = "snapshot"
    /\ k \in dict_keys(alarm_dict[t], alarms)
    /\ IF alarm_dict[t].registry
       THEN /\ alarms' = [x \in DOMAIN alarms \ {k} |-> alarms[x]]
            /\ UNCHANGED alarm_dict
       ELSE /\ alarm_dict' = [alarm_dict EXCEPT ![t].keys = @ \ {k}]
            /\ UNCHANGED alarms
    /\ last' = [op |-> "del", thread |-> t, key |-> k]
    /\ UNCHANGED <<mainVars, file, monAlarms, monPc, active_alarms, pc>>

(* The caller is done with the dict. *)
ThreadSnapshotReturn(t) ==
    /\ pc[t] = "snapshot"
    /\ last' = [op |-> "get_alarms", thread |-> t,
                keys |-> dict_keys(alarm_dict[t], alarms)]
    /\ alarm_dict' = [alarm_dict EXCEPT ![t] = <<>>]
    /\ Goto(t, "idle")
    /\ UNCHANGED <<mainVars, alarms, file, monAlarms, monPc, active_alarms>>

NextSnapshot ==
    \E t \in Threads :
        \/ \E json_data \in SmallCreateInputs : ThreadCreate(t, json_data)
        \/ \E alarm_id \in AllIds : ThreadDelete(t, alarm_id)
        \/ ThreadSaveSnapshot(t)
        \/ ThreadSaveWrite(t)
        \/ ThreadSnapshot(t)
        \/ \E k \in AllIds : ThreadSnapshotDelete(t, k)
        \/ ThreadSnapshotReturn(t)

SpecSnapshot == Init /\ [][NextSnapshot]_vars

---------------------------------------------------------------------------
(* The schedule of the monitor: instants are seconds since the midnight    *)
(* that starts day 0, a time of day "HH:MM" is the record of its hour and  *)
(* its minute.                                                             *)

Date(day, H, M, S) == day * SecondsPerDay + 3600 * H + 60 * M + S

HHMM(H, M) == [H |-> H, M |-> M]

(* datetime.strptime(t, "%H:%M"): the time of day as an offset from the    *)
(* midnight of the date strptime fills in.                                 *)
strptime(t) == 3600 * t.H + 60 * t.M

(* .replace(year, month, day) of current_time on a parsed time of day. *)
replace_date(offset, current_time) ==
    (current_time - (current_time % SecondsPerDay)) + offset

get_next_run_time_including_now(current_time, check_times) ==
    LET today_times == [i \in DOMAIN check_times |->
                           replace_date(strptime(check_times[i]), current_time)]
        tomorrow_times == [i \in DOMAIN today_times |->
                              today_times[i] + SecondsPerDay]
        all_times == today_times \o tomorrow_times
        future_times == SelectSeq(all_times, LAMBDA t : t >= current_time)
        diffs == {future_times[i] - current_time : i \in DOMAIN future_times}
    IN  IF future_times = <<>>
        THEN [raised |-> TRUE, ret |-> None]
        ELSE [raised |-> FALSE,
              ret |-> Some(current_time
                           + CHOOSE d \in diffs : \A e \in diffs : d <= e)]

get_next_run_time_of_tomorrow(current_time, check_times) ==
    LET today_times == [i \in DOMAIN check_times |->
                           replace_date(strptime(check_times[i]), current_time)]
        tomorrow_times == [i \in DOMAIN today_times |->
                              today_times[i] + SecondsPerDay]
        future_times == SelectSeq(tomorrow_times, LAMBDA t : t > current_time)
        diffs == {future_times[i] - current_time : i \in DOMAIN future_times}
    IN  IF future_times = <<>>
        THEN [raised |-> TRUE, ret |-> None]
        ELSE [raised |-> FALSE,
              ret |-> Some(current_time
                           + CHOOSE d \in diffs : \A e \in diffs : d <= e)]

(* get_next_run_time: the candidate of today or of tomorrow with the       *)
(* smallest positive difference to current_time; min() of an empty list    *)
(* raises ValueError.                                                      *)
get_next_run_time(current_time, check_times) ==
    LET today_times == [i \in DOMAIN check_times |->
                           replace_date(strptime(check_times[i]), current_time)]
        tomorrow_times == [i \in DOMAIN today_times |->
                              today_times[i] + SecondsPerDay]
        all_times == today_times \o tomorrow_times
        future_times == SelectSeq(all_times, LAMBDA t : t > current_time)
        diffs == {future_times[i] - current_time : i \in DOMAIN future_times}
    IN  IF future_times = <<>>
        THEN [raised |-> TRUE, ret |-> None]
        ELSE [raised |-> FALSE,
              ret |-> Some(current_time
                           + CHOOSE d \in diffs : \A e \in diffs : d <= e)]

EMAIL_SENDING_TIMES == <<HHMM(14, 30), HHMM(18, 30), HHMM(22, 30)>>

(* Values of datetime.now(): around each configured time, to the second,   *)
(* and around midnight, on two dates.                                      *)
Instants ==
    {Date(day, t[1], t[2], t[3]) :
        day \in {0, 1},
        t \in {<<0, 0, 0>>, <<10, 0, 0>>, <<14, 29, 59>>, <<14, 30, 0>>,
               <<14, 30, 1>>, <<18, 30, 0>>, <<22, 30, 0>>, <<23, 0, 0>>,
               <<23, 59, 59>>}}

(* Lists of checking times: none, one, the configured list, out of order,  *)
(* with a repeated time, and at the ends of the day.                       *)
CheckTimes ==
    {<<>>, <<HHMM(14, 30)>>, EMAIL_SENDING_TIMES,
     <<HHMM(22, 30), HHMM(14, 30)>>, <<HHMM(14, 30), HHMM(14, 30)>>,
     <<HHMM(0, 0)>>, <<HHMM(23, 59)>>, <<HHMM(23, 59), HHMM(0, 0)>>}

(* get_next_check_time: get_next_run_time at datetime.now(). *)
GetNextCheckTime ==
    /\ last.op = "datetime.now"
    /\ last' = [op |-> "get_next_run_time",
                current_time |-> last.current_time,
                check_times |-> last.check_times,
                next_time |-> get_next_run_time(last.current_time,
                                                last.check_times)]
    /\ UNCHANGED <<mainVars, alarms, file, monAlarms, monPc, active_alarms, pc,
                   alarm_dict>>

InitSchedule ==
    /\ file = <<>>
    /\ alarms = load_alarms(file)
    /\ monAlarms = load_alarms(file)
    /\ monPc = "sleep"
    /\ active_alarms = <<>>
    /\ pc = IdlePc
    /\ alarm_dict = NoDicts
    /\ InitMain
    /\ last \in [op : {"datetime.now"}, current_time : Instants,
                  check_times : CheckTimes]

NextSchedule == GetNextCheckTime

SpecSchedule == InitSchedule /\ [][NextSchedule]_vars

---------------------------------------------------------------------------
(* The monitor process in time: run_monitor.main, its retries and its      *)
(* signal handler, around the loop of AlarmMonitor.run, with a check of an *)
(* alarm in two steps (the fetch of the reading, then the rest).           *)

MAX_RETRIES == 3

RETRY_DELAY == 60

MaxPasses == 5

(* The clock when the process starts, and the two lengths of time that     *)
(* pass between two steps of the process.                                  *)
StartTime == Clock + strptime(HHMM(14, 29))

LongPass == 4 * 3600

Passes ==
    ((wall_clock - StartTime) \div LongPass)
        + (((wall_clock - StartTime) % LongPass) \div RETRY_DELAY)

main_except_catching_exit(exc, count) ==
    IF count + 1 < MAX_RETRIES
    THEN [retry_count |-> count + 1, exit_status |-> None, retry |-> TRUE]
    ELSE [retry_count |-> count + 1, exit_status |-> Some(1), retry |-> FALSE]

main_except_not_counting(exc, count) ==
    IF exc = "SystemExit"
    THEN [retry_count |-> count, exit_status |-> Some(0), retry |-> FALSE]
    ELSE IF count < MAX_RETRIES
    THEN [retry_count |-> count, exit_status |-> None, retry |-> TRUE]
    ELSE [retry_count |-> count, exit_status |-> Some(1), retry |-> FALSE]

(* The except clauses of main on what leaves its try block: SystemExit     *)
(* (sys.exit(0) of signal_handler) is no Exception and ends the process    *)
(* with its status; an Exception is counted, and main sleeps RETRY_DELAY   *)
(* and tries again, or calls sys.exit(1) at the last retry.                *)
main_except(exc, count) ==
    IF exc = "SystemExit"
    THEN [retry_count |-> count, exit_status |-> Some(0), retry |-> FALSE]
    ELSE IF count + 1 < MAX_RETRIES
    THEN [retry_count |-> count + 1, exit_status |-> None, retry |-> TRUE]
    ELSE [retry_count |-> count + 1, exit_status |-> Some(1), retry |-> FALSE]

check_alarms_reraising(raised) == IF raised THEN "Exception" ELSE ""

(* The except clause of the loop of check_alarms: the error is logged and  *)
(* no exception leaves the turn of the loop.                               *)
check_alarms_except(raised) == ""

time_sleep_returning_early(deadline, t) == TRUE

(* time.sleep returns once the time asked for has passed. *)
time_sleep(deadline, t) == t >= deadline

(* What get_latest_data returns: no reading, or a timestamp (its format    *)
(* and its age in seconds) and a value: a reading of the last hour and an  *)
(* old one.                                                                *)
AgedReadings ==
    {None,
     <<"%Y-%m-%d %H:%M", 3600, MinThreshold + 1>>,
     <<"%Y-%m-%d %H:%M:%S", SecondsPerDay + 1, 0>>}

ReadingAt(reading, t) ==
    IF reading = None THEN None
    ELSE <<[format |-> reading[1], instant |-> t - reading[2]], reading[3]>>

(* An exception leaves monitor.run() and reaches the except clauses of     *)
(* main: the locals of run are gone.                                       *)
Unwind(exc) ==
    LET r == main_except(exc, retry_count)
    IN  /\ retry_count' = r.retry_count
        /\ exit_status' = r.exit_status
        /\ monPc' = IF r.retry THEN "retry" ELSE "exit"
        /\ sleep_until' = IF r.retry THEN Some(wall_clock + RETRY_DELAY) ELSE None
        /\ active_alarms' = <<>>
        /\ fetched' = None
        /\ loop_time' = None
        /\ next_run' = None

(* main: monitor = AlarmMonitor(EMAIL_SENDING_TIMES) and the call of       *)
(* monitor.run().  The singleton loads the registry the first time only.   *)
MainStart ==
    /\ monPc = "main"
    /\ retry_count < MAX_RETRIES
    /\ monAlarms' = IF starts = 0 THEN load_alarms(file) ELSE monAlarms
    /\ starts' = starts + 1
    /\ monPc' = "run"
    /\ last' = [op |-> "AlarmMonitor", starts |-> starts',
                load_alarms |-> starts = 0]
    /\ UNCHANGED <<alarms, file, active_alarms, pc, alarm_dict, wall_clock,
                   loop_time, next_run, sleep_until, retry_count,
                   exit_status, fetched, sweep>>

(* run, from the head of its loop to the call of time.sleep. *)
RunSchedule ==
    /\ monPc = "run"
    /\ loop_time' = Some(wall_clock)
    /\ next_run' = get_next_run_time(wall_clock, EMAIL_SENDING_TIMES).ret
    /\ sleep_until' = Some(wall_clock + (next_run'[1] - wall_clock))
    /\ monPc' = "time.sleep"
    /\ last' = [op |-> "get_next_run_time", current_time |-> wall_clock,
                next_time |-> next_run']
    /\ UNCHANGED <<alarms, file, monAlarms, active_alarms, pc, alarm_dict,
                   wall_clock, retry_count, exit_status, fetched, sweep, starts>>

(* time.sleep returns and check_alarms lists the active alarms. *)
RunWake ==
    /\ monPc = "time.sleep"
    /\ time_sleep(sleep_until[1], wall_clock)
    /\ active_alarms' =
          SelectSeq(KeyOrder, LAMBDA k : k \in ActiveKeys(monAlarms))
    /\ sweep' = [active_alarms |-> active_alarms', checked |-> <<>>,
                 errors |-> <<>>]
    /\ monPc' = "check_alarms"
    /\ last' = [op |-> "time.sleep", now |-> wall_clock,
                active_alarms |-> active_alarms']
    /\ UNCHANGED <<alarms, file, monAlarms, pc, alarm_dict, wall_clock,
                   loop_time, next_run, sleep_until, retry_count,
                   exit_status, fetched, starts>>

(* alarm.check_alarm() has ended in the loop of check_alarms. *)
CheckEnds(check, fetch) ==
    LET exc == check_alarms_except(check.raised)
        alarm_id == Head(active_alarms)
    IN  /\ sweep' = [sweep EXCEPT
                        !.checked = Append(@, alarm_id),
                        !.errors = IF check.raised THEN Append(@, alarm_id)
                                   ELSE @]
        /\ last' = [op |-> "check_alarm", alarm_id |-> alarm_id,
                    alarm |-> monAlarms[alarm_id], fetch |-> fetch,
                    now |-> wall_clock, check |-> check,
                    retry_count |-> retry_count]
        /\ IF exc = ""
           THEN /\ active_alarms' = Tail(active_alarms)
                /\ monPc' = "check_alarms"
                /\ fetched' = None
                /\ UNCHANGED <<loop_time, next_run, sleep_until,
                               retry_count, exit_status>>
           ELSE Unwind(exc)
        /\ UNCHANGED <<alarms, file, monAlarms, pc, alarm_dict, wall_clock, starts>>

(* The first line of check_alarm: get_latest_data raises (an error status  *)
(* of the telemetry API) and the check ends.                               *)
RunFetchRaises ==
    /\ monPc = "check_alarms"
    /\ active_alarms # <<>>
    /\ CheckEnds(Checked(TRUE, FALSE, FALSE, FALSE, 0),
                 [raised |-> TRUE, latest_data |-> None])

(* The first line of check_alarm: get_latest_data returns. *)
RunFetch(reading) ==
    /\ monPc = "check_alarms"
    /\ active_alarms # <<>>
    /\ fetched' = Some(ReadingAt(reading, wall_clock))
    /\ monPc' = "check_alarm"
    /\ UNCHANGED <<alarms, file, monAlarms, active_alarms, pc, alarm_dict,
                   last, wall_clock, loop_time, next_run, sleep_until,
                   retry_count, exit_status, sweep, starts>>

(* The rest of check_alarm on the reading fetched.  send_email raises      *)
(* (server.quit() in its finally clause, on an unbound name) when the      *)
(* connection to the SMTP server cannot be opened.                         *)
RunCheck(connected) ==
    /\ monPc = "check_alarm"
    /\ LET check == check_alarm(monAlarms[Head(active_alarms)], TRUE,
                                fetched[1], wall_clock)
       IN  CheckEnds(IF check.sent > 0 /\ ~connected
                     THEN [check EXCEPT !.raised = TRUE, !.ret = FALSE]
                     ELSE check,
                     [raised |-> FALSE, latest_data |-> fetched[1]])

(* check_alarms returns to the loop of run. *)
RunSweepEnd ==
    /\ monPc = "check_alarms"
    /\ active_alarms = <<>>
    /\ monPc' = "run"
    /\ last' = [op |-> "check_alarms", now |-> wall_clock]
    /\ UNCHANGED <<alarms, file, monAlarms, active_alarms, pc, alarm_dict,
                   wall_clock, loop_time, next_run, sleep_until, retry_count,
                   exit_status, fetched, sweep, starts>>

(* An exception that nothing in run catches (a MemoryError, say) leaves    *)
(* monitor.run().                                                          *)
RunRaise ==
    /\ monPc \in {"run", "time.sleep", "check_alarms"}
    /\ Unwind("Exception")
    /\ last' = [op |-> "Exception", at |-> monPc, now |-> wall_clock,
                retry_count |-> retry_count']
    /\ UNCHANGED <<alarms, file, monAlarms, pc, alarm_dict, wall_clock, sweep,
                   starts>>

(* time.sleep(RETRY_DELAY) returns and main tries again. *)
MainRetry ==
    /\ monPc = "retry"
    /\ time_sleep(sleep_until[1], wall_clock)
    /\ monPc' = "main"
    /\ sleep_until' = None
    /\ last' = [op |-> "retry", now |-> wall_clock]
    /\ UNCHANGED <<alarms, file, monAlarms, active_alarms, pc, alarm_dict,
                   wall_clock, loop_time, next_run, retry_count, exit_status,
                   fetched, sweep, starts>>

(* SIGINT or SIGTERM: signal_handler runs in the main thread, wherever it  *)
(* is, and sys.exit(0) raises SystemExit there.                            *)
Signal ==
    /\ monPc # "exit"
    /\ Unwind("SystemExit")
    /\ last' = [op |-> "signal_handler", at |-> monPc, now |-> wall_clock,
                sleep_until |-> sleep_until, retry_count |-> retry_count]
    /\ UNCHANGED <<alarms, file, monAlarms, pc, alarm_dict, wall_clock, sweep,
                   starts>>

(* Time passes. *)
Pass(seconds) ==
    /\ monPc # "exit"
    /\ Passes < MaxPasses
    /\ wall_clock' = wall_clock + seconds
    /\ UNCHANGED <<alarms, file, monAlarms, monPc, active_alarms, pc,
                   alarm_dict, last, loop_time, next_run, sleep_until,
                   retry_count, exit_status, fetched, sweep, starts>>

InitRun ==
    /\ file \in DeployInitFiles
    /\ alarms = load_alarms(file)
    /\ monAlarms = <<>>
    /\ monPc = "main"
    /\ active_alarms = <<>>
    /\ pc = IdlePc
    /\ alarm_dict = NoDicts
    /\ last = [op |-> "main"]
    /\ wall_clock = StartTime
    /\ loop_time = None
    /\ next_run = None
    /\ sleep_until = None
    /\ retry_count = 0
    /\ exit_status = None
    /\ fetched = None
    /\ sweep = [active_alarms |-> <<>>, checked |-> <<>>, errors |-> <<>>]
    /\ starts = 0

NextRun ==
    \/ MainStart
    \/ RunSchedule
    \/ RunWake
    \/ RunFetchRaises
    \/ \E reading \in AgedReadings : RunFetch(reading)
    \/ \E connected \in BOOLEAN : RunCheck(connected)
    \/ RunSweepEnd
    \/ RunRaise
    \/ MainRetry
    \/ Signal
    \/ \E seconds \in {RETRY_DELAY, LongPass} : Pass(seconds)

SpecRun == InitRun /\ [][NextRun]_vars

(* The monitor process for ever: no signal arrives and nothing but the     *)
(* check of an alarm raises.  The dates have the names the clock gives     *)
(* them: when the clock reaches the third date after Clock, every instant  *)
(* of the state is named a day earlier (get_next_run_time, time.sleep and  *)
(* the age of a reading depend on differences of instants and on the time  *)
(* of day only).                                                           *)
HourPass == 60 * RETRY_DELAY

ReadingEarlier(latest_data) ==
    IF latest_data = None THEN None
    ELSE <<[latest_data[1] EXCEPT !.instant = @ - SecondsPerDay],
           latest_data[2]>>

CallEarlier(call) ==
    IF call.op = "get_next_run_time"
    THEN [call EXCEPT !.current_time = @ - SecondsPerDay,
                      !.next_time = Some(@[1] - SecondsPerDay)]
    ELSE IF call.op \in {"time.sleep", "check_alarms"}
    THEN [call EXCEPT !.now = @ - SecondsPerDay]
    ELSE IF call.op = "check_alarm"
    THEN [call EXCEPT !.now = @ - SecondsPerDay,
                      !.fetch.latest_data = ReadingEarlier(@)]
    ELSE call

(* Time passes; the process is behind the end of its sleep by less than    *)
(* LongPass and a pass.                                                    *)
PassOn(seconds) ==
    LET t == wall_clock + seconds
        turn == t >= Clock + 2 * SecondsPerDay
        Earlier(x) == IF turn /\ x # None THEN Some(x[1] - SecondsPerDay)
                      ELSE x
    IN  /\ sleep_until # None => wall_clock < sleep_until[1] + LongPass
        /\ wall_clock' = IF turn THEN t - SecondsPerDay ELSE t
        /\ loop_time' = Earlier(loop_time)
        /\ next_run' = Earlier(next_run)
        /\ sleep_until' = Earlier(sleep_until)
        /\ fetched' = IF turn /\ fetched # None
                      THEN Some(ReadingEarlier(fetched[1])) ELSE fetched
        /\ last' = IF turn THEN CallEarlier(last) ELSE last
        /\ UNCHANGED <<alarms, file, monAlarms, monPc, active_alarms, pc,
                       alarm_dict, retry_count, exit_status, sweep, starts>>

(* A step of the monitor process. *)
MonitorStep ==
    \/ MainStart
    \/ RunSchedule
    \/ RunWake
    \/ RunFetchRaises
    \/ \E reading \in AgedReadings : RunFetch(reading)
    \/ \E connected \in BOOLEAN : RunCheck(connected)
    \/ RunSweepEnd

TimePasses == \E seconds \in {HourPass, LongPass} : PassOn(seconds)

NextLive ==
    \/ MainStart
    \/ RunSchedule
    \/ RunWake
    \/ RunFetchRaises
    \/ \E reading \in AgedReadings : RunFetch(reading)
    \/ \E connected \in BOOLEAN : RunCheck(connected)
    \/ RunSweepEnd
    \/ \E seconds \in {HourPass, LongPass} : PassOn(seconds)

(* The process is scheduled (it takes a step it can take, and a call it    *)
(* waits for returns or raises) and time passes.                           *)
SpecLive ==
    InitRun /\ [][NextLive]_vars /\ WF_vars(MonitorStep) /\ WF_vars(TimePasses)

---------------------------------------------------------------------------
(* Properties *)

TwoThresholdTypes == {"BETWEEN", "OUTSIDE"}

OneThresholdTypes == {"BELOW", "ABOVE", "EQUAL"}

Mutations == {"create_alarm", "update_alarm", "delete_alarm"}

Range(seq) == {seq[i] : i \in 1..Len(seq)}

(* The reading of the check that ended last has a timestamp that parses. *)
Parseable ==
    /\ last.latest_data # None
    /\ parse_timestamp(last.latest_data[1]) # None

Age == last.now - parse_timestamp(last.latest_data[1])[1]

Rule == check_threshold(last.alarm, last.latest_data[2])

Outcome(check) ==
    IF check.old_data THEN "Stale"
    ELSE IF check.ret THEN "Triggered" ELSE "Normal"

ValidRule(alarm) ==
    /\ alarm.threshold1 # None
    /\ alarm.alarm_type \in TwoThresholdTypes =>
          /\ alarm.threshold2 # None
          /\ alarm.threshold1[1] < alarm.threshold2[1]
    /\ alarm.alarm_type \in OneThresholdTypes => alarm.threshold2 = None

(* C1: every alarm stored in the registry has thresholds valid for its     *)
(* mode: BETWEEN and OUTSIDE have threshold2 present and threshold1 <      *)
(* threshold2; BELOW, ABOVE and EQUAL have threshold2 absent.              *)
C1_RuleValidity ==
    \A k \in DOMAIN alarms :
        /\ alarms[k].alarm_type \in TwoThresholdTypes =>
              /\ alarms[k].threshold1 # None
              /\ alarms[k].threshold2 # None
              /\ alarms[k].threshold1[1] < alarms[k].threshold2[1]
        /\ alarms[k].alarm_type \in OneThresholdTypes =>
              alarms[k].threshold2 = None

(* C2: every key of the registry holds an alarm whose id is that key and   *)
(* is serial + "_" + channel of the alarm.                                 *)
C2_KeyIsId ==
    \A k \in DOMAIN alarms :
        /\ alarms[k].id = k
        /\ alarms[k].id = Id(alarms[k].serial_number, alarms[k].channel)

(* C3: after save_alarms, load_alarms of the file gives the ids of the     *)
(* registry and, for each id, its threshold1, threshold2 and emails.       *)
C3_RoundTrip ==
    (last.op \in Mutations /\ ~last.raised) =>
        LET loaded == load_alarms(file)
        IN  /\ DOMAIN loaded = DOMAIN alarms
            /\ \A k \in DOMAIN alarms :
                  /\ loaded[k].threshold1 = alarms[k].threshold1
                  /\ loaded[k].threshold2 = alarms[k].threshold2
                  /\ loaded[k].emails = alarms[k].emails

(* C4: once every concurrent create, update and delete has returned, the   *)
(* file holds the serialization of the registry as it is in memory.        *)
C4_DiskMirror ==
    ((\A t \in Threads : pc[t] = "idle") /\ last.op = "save_alarms") =>
        file = save_alarms_dict(alarms)

(* C5: test_alarm on an existing alarm never calls send_email, whatever    *)
(* the reading.                                                            *)
C5_TestSendsNoEmail ==
    (last.op = "test_alarm" /\ last.found) => last.check.sent = 0

(* C6: test_alarm on an existing alarm and a reading whose timestamp       *)
(* parses returns the result of check_threshold on the reading's value,    *)
(* also when the reading is older than 24 hours.                           *)
C6_TestNoStaleness ==
    (last.op = "test_alarm" /\ last.found /\ Parseable /\ ~Rule.raised) =>
        /\ ~last.check.raised
        /\ last.check.ret = Rule.ret

(* C7: a sweep of the monitor loop checks the active alarms of the         *)
(* registry the facade has created, updated and deleted in: the alarms     *)
(* it starts with are the active alarms of the facade's registry.          *)
C7_SharedRegistry ==
    last.op = "check_alarms" =>
        /\ Range(last.active_alarms) = ActiveKeys(alarms)
        /\ \A k \in Range(last.active_alarms) : monAlarms[k] = alarms[k]

(* C8: a live check of a reading whose timestamp parses: older than 24     *)
(* hours, the outcome is Stale and check_threshold is not called (and the  *)
(* check does not return triggered); otherwise check_threshold is called   *)
(* and the outcome is Triggered when it returns true, Normal when it       *)
(* returns false (when it raises, so does the check).                      *)
C8_DecisionOrder ==
    (last.op = "check_alarm" /\ Parseable) =>
        IF Age > SecondsPerDay
        THEN /\ Outcome(last.check) = "Stale"
             /\ ~last.check.threshold_checked
             /\ ~last.check.ret
             /\ ~last.check.raised
        ELSE /\ last.check.threshold_checked
             /\ Rule.raised => last.check.raised
             /\ ~Rule.raised =>
                   /\ ~last.check.raised
                   /\ Outcome(last.check) =
                         IF Rule.ret THEN "Triggered" ELSE "Normal"

C8_Witness ==
    /\ last.op = "check_alarm"
    /\ Parseable
    /\ Age > SecondsPerDay
    /\ ~Rule.raised
    /\ Rule.ret
    /\ Outcome(last.check) = "Stale"

(* C9: a live check calls send_email exactly once when its outcome is      *)
(* Triggered or Stale and the alarm has a recipient, and not at all when   *)
(* the outcome is Normal or the recipient list is empty.                   *)
C9_LiveNotification ==
    last.op = "check_alarm" =>
        last.check.sent =
            IF /\ ~last.check.raised
               /\ Outcome(last.check) \in {"Triggered", "Stale"}
               /\ last.alarm.emails # <<>>
            THEN 1 ELSE 0

C9_Witness ==
    /\ last.op = "check_alarm"
    /\ Outcome(last.check) = "Triggered"
    /\ last.alarm.emails # <<>>
    /\ last.check.sent = 1

(* C10: on a validly configured rule, check_threshold is value <           *)
(* threshold1 for BELOW, value > threshold1 for ABOVE, value = threshold1  *)
(* for EQUAL, threshold1 < value < threshold2 for BETWEEN, and value <     *)
(* threshold1 or value > threshold2 for OUTSIDE.                           *)
C10_RuleEvaluation ==
    (/\ last.op = "test_alarm"
     /\ last.found
     /\ last.check.threshold_checked
     /\ ValidRule(last.alarm)) =>
        LET value == last.latest_data[2]
            threshold1 == last.alarm.threshold1[1]
            threshold2 == last.alarm.threshold2[1]
            mode == last.alarm.alarm_type
        IN  /\ ~last.check.raised
            /\ mode = "BELOW" => (last.check.ret <=> value < threshold1)
            /\ mode = "ABOVE" => (last.check.ret <=> value > threshold1)
            /\ mode = "EQUAL" => (last.check.ret <=> value = threshold1)
            /\ mode = "BETWEEN" =>
                  (last.check.ret <=> (threshold1 < value /\ value < threshold2))
            /\ mode = "OUTSIDE" =>
                  (last.check.ret <=> (value < threshold1 \/ value > threshold2))

C10_Witness ==
    /\ last.op = "test_alarm"
    /\ last.found
    /\ last.check.threshold_checked
    /\ ValidRule(last.alarm)
    /\ last.alarm.alarm_type = "BETWEEN"
    /\ last.latest_data[2] = last.alarm.threshold2[1]
    /\ ~last.check.ret

(* A test of an OUTSIDE alarm with valid bounds whose rule was evaluated. *)
OutsideChecked ==
    /\ last.op = "test_alarm"
    /\ last.found
    /\ last.check.threshold_checked
    /\ last.alarm.alarm_type = "OUTSIDE"
    /\ ValidRule(last.alarm)

(* C11: for an OUTSIDE rule with bounds (lo, hi), a value equal to lo      *)
(* triggers, a value equal to hi triggers, and a value strictly between lo *)
(* and hi does not trigger.                                                *)
C11_OutsideBoundary ==
    OutsideChecked =>
        LET value == last.latest_data[2]
            lo == last.alarm.threshold1[1]
            hi == last.alarm.threshold2[1]
        IN  /\ value = lo => last.check.ret
            /\ value = hi => last.check.ret
            /\ (lo < value /\ value < hi) => ~last.check.ret

(* C11 as amended: for an OUTSIDE rule with bounds (lo, hi), a value equal *)
(* to lo does not trigger, a value equal to hi does not trigger, a value   *)
(* strictly between lo and hi does not trigger, and a value below lo or    *)
(* above hi triggers.                                                      *)
C11_OutsideOpenBoundary ==
    OutsideChecked =>
        LET value == last.latest_data[2]
            lo == last.alarm.threshold1[1]
            hi == last.alarm.threshold2[1]
        IN  /\ ~last.check.raised
            /\ value = lo => ~last.check.ret
            /\ value = hi => ~last.check.ret
            /\ (lo < value /\ value < hi) => ~last.check.ret
            /\ (value < lo \/ value > hi) => last.check.ret

C11_Witness ==
    /\ OutsideChecked
    /\ last.latest_data[2] = last.alarm.threshold1[1]
    /\ ~last.check.ret

(* The call is one of the three cases in which threshold validation fails. *)
InvalidThresholds(mode, threshold1, threshold2) ==
    \/ mode \in TwoThresholdTypes /\ threshold2 = None
    \/ mode \in OneThresholdTypes /\ threshold2 # None
    \/ /\ mode \in TwoThresholdTypes
       /\ threshold1 # None
       /\ threshold2 # None
       /\ threshold1[1] >= threshold2[1]

RequiredKeys == {"serial", "channel", "type"}

(* C12: set_thresholds, called on an alarm or by the construction of one,  *)
(* raises when the mode is BETWEEN or OUTSIDE and threshold2 is absent,    *)
(* when the mode is BELOW, ABOVE or EQUAL and threshold2 is present, and   *)
(* when the mode is BETWEEN or OUTSIDE and threshold1 >= threshold2; when  *)
(* it raises, the thresholds stored on the alarm are what they were.       *)
C12_ThresholdValidation ==
    /\ (/\ last.op = "set_thresholds"
        /\ InvalidThresholds(last.before.alarm_type,
                             last.threshold1, last.threshold2)) =>
            /\ last.raised
            /\ last.alarm.threshold1 = last.before.threshold1
            /\ last.alarm.threshold2 = last.before.threshold2
    /\ (/\ last.op = "from_dict"
        /\ RequiredKeys \subseteq DOMAIN last.data
        /\ InvalidThresholds(last.data["type"],
                             Get(last.data, "threshold1", None),
                             Get(last.data, "threshold2", None))) =>
            last.raised

(* C13: from_dict raises when serial, channel, type or threshold1 is       *)
(* missing from the record or threshold1 is null; when it returns, the     *)
(* alarm has id = serial + "_" + channel, and enabled = true, emails = []  *)
(* and pozo = "" for the fields the record omits.                          *)
C13_FromDictRequired ==
    last.op = "from_dict" =>
        /\ (\/ ~(RequiredKeys \subseteq DOMAIN last.data)
            \/ Get(last.data, "threshold1", None) = None) => last.raised
        /\ ~last.raised =>
              /\ last.alarm.id = Id(last.data["serial"], last.data["channel"])
              /\ "enabled" \notin DOMAIN last.data => last.alarm.active
              /\ "emails" \notin DOMAIN last.data => last.alarm.emails = <<>>
              /\ "pozo" \notin DOMAIN last.data => last.alarm.pozo = ""

(* C14: a create call with a list of records either constructs every      *)
(* record and inserts all of them, or, when from_dict rejects any record,  *)
(* fails and leaves the registry what it was before the call.              *)
C14_BatchAllOrNothing ==
    [][\A json_data \in DeployCreateInputs :
          CreateAlarm(json_data) =>
              IF \E i \in 1..Len(json_data) : from_dict(json_data[i]).raised
              THEN /\ last'.raised
                   /\ alarms' = alarms
              ELSE /\ ~last'.raised
                   /\ \A i \in 1..Len(json_data) :
                         LET alarm == from_dict(json_data[i]).self
                         IN  /\ alarm.id \in DOMAIN alarms'
                             /\ alarms'[alarm.id] = alarm
                   /\ \A k \in DOMAIN alarms' :
                         \/ k \in Range(last'.created_ids)
                         \/ k \in DOMAIN alarms /\ alarms'[k] = alarms[k]]_vars

C14_Witness ==
    /\ last.op = "create_alarm"
    /\ last.raised
    /\ alarms = <<>>

(* C15: update_alarm and delete_alarm on an id that is not in the registry *)
(* fail, the facade answers with its not-found status (404), which is not  *)
(* the status it gives a failed validation, and the registry and the file  *)
(* are what they were.                                                     *)
C15_NotFound ==
    [][(/\ last'.op \in {"update_alarm", "delete_alarm"}
        /\ last'.alarm_id \notin DOMAIN alarms) =>
            /\ last'.raised
            /\ last'.status = 404
            /\ alarms' = alarms
            /\ file' = file]_vars

(* C16: when update_alarm on an alarm of the registry fails, the alarm's   *)
(* mode, serial, channel, id, pozo, emails, enabled flag and thresholds    *)
(* are all what they were before the call.                                 *)
C16_FailedUpdateUnchanged ==
    [][(/\ last'.op = "update_alarm"
        /\ last'.raised
        /\ last'.alarm_id \in DOMAIN alarms) =>
            alarms'[last'.alarm_id] = alarms[last'.alarm_id]]_vars

Listing(alarm) == listing_head(alarm) @@ listing_tail(alarm)

(* C17: a reader that took the alarms through get_alarms and read their    *)
(* fields next to update_alarm has read, for every alarm, either the       *)
(* values all its fields had before the update (when the copy was taken)   *)
(* or the values they all have after it, never a mixture.                  *)
C17_NoPartialRead ==
    last.op = "get_alarms" =>
        \A k \in DOMAIN last.listing :
            \/ last.listing[k] = Listing(last.copied[k])
            \/ last.listing[k] = Listing(alarms[k])

(* C18: concurrent creates lose nothing: whatever the other callers are in *)
(* the middle of, a create call of valid records does not fail, and when   *)
(* it has inserted, the registry holds the ids it held before and the ids  *)
(* of the call, every earlier alarm of another id being untouched; so N    *)
(* concurrent creates of distinct ids on an empty registry leave exactly   *)
(* those N ids.                                                            *)
C18_CreatesLoseNothing ==
    [][\A t \in Threads, json_data \in SmallCreateInputs :
          ThreadCreate(t, json_data) =>
              LET ids == {from_dict(json_data[i]).self.id :
                              i \in 1..Len(json_data)}
              IN  /\ pc'[t] = "save_alarms"
                  /\ DOMAIN alarms' = DOMAIN alarms \cup ids
                  /\ \A k \in DOMAIN alarms \ ids : alarms'[k] = alarms[k]
                  /\ \A i \in 1..Len(json_data) :
                        alarms'[from_dict(json_data[i]).self.id] =
                            from_dict(json_data[i]).self]_vars

(* Nothing was written yet, both callers are in the middle of a call and   *)
(* the registry holds both ids.                                            *)
C18_Witness ==
    /\ file = <<>>
    /\ \A t \in Threads : pc[t] # "idle"
    /\ DOMAIN alarms = AllIds

(* C19: inserts, deletes and iterations of the whole registry map exclude  *)
(* each other (all are made holding the alarms lock): no step inserts into *)
(* or deletes from the map while a thread is in the middle of iterating    *)
(* it.                                                                     *)
C19_LockCoverage ==
    [][\A t \in Threads :
          (pc[t] = "load_logger_names" /\ pc'[t] = "load_logger_names") =>
              DOMAIN alarms' = DOMAIN alarms]_vars

(* C20: no thread is inside a file write or a telemetry fetch while it     *)
(* holds the alarms lock.                                                  *)
C20_NoIOUnderLock ==
    \A t \in Threads : pc[t] \in {"write", "get_value"} => t \notin alarms_lock

(* C21: when the write of the alarms file fails during create_alarm,       *)
(* update_alarm or delete_alarm, the call raises to its caller.            *)
C21_FlushFailureReported ==
    (last.op \in Mutations /\ last.flush = "failed") => last.raised

C21_Witness ==
    /\ last.op = "delete_alarm"
    /\ last.flush = "failed"
    /\ last.raised
    /\ last.alarm_id \notin DOMAIN alarms
    /\ last.alarm_id \in DOMAIN file

(* The instants of the configured times of day on the date of now and on   *)
(* the following date.                                                     *)
Candidates(now, times) ==
    {Date(now \div SecondsPerDay + d, times[i].H, times[i].M, 0) :
        d \in {0, 1}, i \in DOMAIN times}

(* C22: for a non-empty list of times, get_next_run_time returns the       *)
(* earliest of the candidates of today and tomorrow that is strictly later *)
(* than now (so never now itself); 23:00 with 14:30, 18:30, 22:30 gives    *)
(* 14:30 of the next day and 10:00 with 14:30 gives 14:30 of the same day. *)
C22_NextRunTime ==
    (last.op = "get_next_run_time" /\ last.check_times # <<>>) =>
        LET now == last.current_time
            later == {c \in Candidates(now, last.check_times) : c > now}
        IN  /\ ~last.next_time.raised
            /\ last.next_time.ret[1] \in later
            /\ \A c \in later : last.next_time.ret[1] <= c
            /\ last.next_time.ret[1] # now
            /\ (now = Date(0, 23, 0, 0)
                    /\ last.check_times = EMAIL_SENDING_TIMES)
                => last.next_time.ret[1] = Date(1, 14, 30, 0)
            /\ (now = Date(0, 10, 0, 0)
                    /\ last.check_times = <<HHMM(14, 30)>>)
                => last.next_time.ret[1] = Date(0, 14, 30, 0)

(* now is one of the configured times and the call returns the next one. *)
C22_Witness ==
    /\ last.op = "get_next_run_time"
    /\ last.current_time = Date(1, 14, 30, 0)
    /\ last.check_times = EMAIL_SENDING_TIMES
    /\ last.next_time = [raised |-> FALSE, ret |-> Some(Date(1, 18, 30, 0))]

(* C24: the alarms a sweep starts with are active, in the registry of the  *)
(* monitor and in the registry the facade updates: an alarm that an update *)
(* has disabled before the sweep started is not in the sweep.              *)
C24_OnlyActiveSwept ==
    last.op = "check_alarms" =>
        \A k \in Range(last.active_alarms) :
            /\ monAlarms[k].active
            /\ k \in DOMAIN alarms => alarms[k].active

(* The check that ended last is a live check or a test check of an alarm   *)
(* of the registry.                                                        *)
CheckEnded ==
    \/ last.op = "check_alarm"
    \/ last.op = "test_alarm" /\ last.found

(* C29: when telemetry returns no reading, the live check and the test     *)
(* check return not triggered without raising, the rule is not evaluated   *)
(* and no email of either kind is sent.                                    *)
C29_AbsentReading ==
    (CheckEnded /\ last.latest_data = None) =>
        /\ ~last.check.raised
        /\ ~last.check.ret
        /\ ~last.check.threshold_checked
        /\ ~last.check.old_data
        /\ last.check.sent = 0

(* A live check of an active alarm with a recipient finds no reading. *)
C29_Witness ==
    /\ last.op = "check_alarm"
    /\ last.latest_data = None
    /\ last.alarm.active
    /\ last.alarm.emails # <<>>
    /\ last.check = Checked(FALSE, FALSE, FALSE, FALSE, 0)

(* C30: a live check of a reading whose timestamp matches neither format   *)
(* raises (and the sweep logs the error) instead of returning not          *)
(* triggered.                                                              *)
C30_UnparseableIsError ==
    (last.op = "check_alarm" /\ last.latest_data # None /\ ~Parseable) =>
        last.check.raised

(* A sweep is under way. *)
Sweeping == monPc \in {"check_alarms", "check_alarm"}

(* C23: in a sweep, the alarms checked so far and the alarms left are the  *)
(* list taken when the sweep started, in its order: each is checked once.  *)
(* A check that raised is logged, the loop of the sweep goes on to the     *)
(* rest and the monitor loop is not left; when the sweep returns, every    *)
(* alarm of the list was checked.                                          *)
C23_SweepIsolation ==
    /\ Sweeping => sweep.checked \o active_alarms = sweep.active_alarms
    /\ (last.op = "check_alarm" /\ last.check.raised) =>
          /\ Sweeping
          /\ exit_status = None
          /\ retry_count = last.retry_count
          /\ sweep.errors # <<>>
    /\ last.op = "check_alarms" => sweep.checked = sweep.active_alarms

(* The check of the first alarm raised and the second one was checked. *)
C23_Witness ==
    /\ last.op = "check_alarms"
    /\ sweep.checked = <<"100_P1", "200_P1">>
    /\ sweep.errors = <<"100_P1">>

(* The process has left the loop of run: main sleeps before a retry, or    *)
(* the process has ended.                                                  *)
LeftRun(position) == position \in {"retry", "exit"}

(* C25: the registry is loaded by the first AlarmMonitor(...) only; the    *)
(* loop goes from the head of run to time.sleep, from time.sleep to a      *)
(* sweep and from a sweep back to the head of run; a sweep starts from     *)
(* time.sleep only, the sleep was until the instant get_next_run_time      *)
(* returned for the clock read at the head of the loop, and the clock has  *)
(* reached that instant when the sweep starts.                             *)
C25_LoopOrder ==
    [][/\ (~Sweeping /\ Sweeping') =>
             /\ monPc = "time.sleep"
             /\ next_run =
                   get_next_run_time(loop_time[1], EMAIL_SENDING_TIMES).ret
             /\ sleep_until = next_run
             /\ loop_time[1] < next_run[1]
             /\ wall_clock' >= next_run[1]
       /\ (monPc = "run" /\ monPc' # "run" /\ ~LeftRun(monPc')) =>
             monPc' = "time.sleep"
       /\ (monPc = "time.sleep" /\ monPc' # "time.sleep"
              /\ ~LeftRun(monPc')) =>
             monPc' = "check_alarms"
       /\ (Sweeping /\ ~Sweeping' /\ ~LeftRun(monPc')) => monPc' = "run"
       /\ starts > 0 => monAlarms' = monAlarms
       /\ (last'.op = "AlarmMonitor" /\ last'.starts > 1) =>
             ~last'.load_alarms
      ]_vars

(* The second sweep starts at 18:30, after a sleep from 14:30, the instant *)
(* of the first sweep.                                                     *)
C25_Witness ==
    /\ monPc = "check_alarms"
    /\ last.op = "time.sleep"
    /\ loop_time = Some(Clock + strptime(HHMM(14, 30)))
    /\ next_run = Some(Clock + strptime(HHMM(18, 30)))
    /\ wall_clock = Clock + strptime(HHMM(18, 30))

(* C26: a check of an alarm that is in flight ends as a check: the next    *)
(* position of the process is reached by the end of that check_alarm call, *)
(* also when SIGINT or SIGTERM arrives during the check.                   *)
C26_CheckCompletes ==
    [][(monPc = "check_alarm" /\ monPc' # "check_alarm") =>
          /\ last'.op = "check_alarm"
          /\ last'.alarm_id = Head(active_alarms)
          /\ monPc' = "check_alarms"
      ]_vars

(* C27: a signal that arrives during time.sleep of run ends the process    *)
(* with status 0 in that step: the clock has not moved, no sweep was       *)
(* started and the retry count is what it was; a process that has ended    *)
(* takes no step.                                                          *)
C27_PromptShutdown ==
    [][/\ (monPc = "time.sleep" /\ last'.op = "signal_handler"
              /\ last' # last) =>
             /\ exit_status' = Some(0)
             /\ monPc' = "exit"
             /\ wall_clock' = wall_clock
             /\ sweep' = sweep
             /\ retry_count' = retry_count
             /\ starts' = starts
       /\ monPc # "exit"
      ]_vars

(* The signal came before the instant the sleep was to last until. *)
C27_Witness ==
    /\ last.op = "signal_handler"
    /\ last.at = "time.sleep"
    /\ last.now < last.sleep_until[1]
    /\ exit_status = Some(0)
    /\ retry_count = 0

(* C28: monitor.run() is called at most MAX_RETRIES times; every exception *)
(* that leaves it adds one to retry_count, which never decreases; the      *)
(* process ends with status 1 exactly when the count reaches MAX_RETRIES,  *)
(* and it never starts again after that.                                   *)
C28_BoundedRetries ==
    [][/\ retry_count' >= retry_count
       /\ (last'.op = "Exception" /\ last' # last) =>
             retry_count' = retry_count + 1
       /\ starts' <= MAX_RETRIES
       /\ retry_count' <= MAX_RETRIES
       /\ exit_status' = Some(1) <=> retry_count' = MAX_RETRIES
       /\ exit_status # None => UNCHANGED <<starts, monPc, exit_status>>
      ]_vars

C28_Witness ==
    /\ exit_status = Some(1)
    /\ retry_count = MAX_RETRIES
    /\ starts = MAX_RETRIES
    /\ monPc = "exit"

WellFormed(entry) ==
    /\ RequiredKeys \subseteq DOMAIN entry
    /\ entry["type"] \in AlarmType
    /\ Get(entry, "threshold1", None) # None
    /\ ~InvalidThresholds(entry["type"], Get(entry, "threshold1", None),
                          Get(entry, "threshold2", None))

(* C32: load_alarms returns, and the registry it returns has an alarm for  *)
(* every well-formed entry of the file, under the entry's key, and for no  *)
(* other entry.                                                            *)
C32_LoadSkipsBadEntries ==
    last.op = "load_alarms" =>
        DOMAIN alarms = {k \in DOMAIN file : WellFormed(file[k])}

(* The calls of send_email in progress for the alarm under a key: those   *)
(* of the callers of test_alarm and that of the sweep.                     *)
InFlight(k) ==
    Cardinality({t \in Threads :
                    pc[t] = "send_email" /\ alarm_dict[t].alarm_id = k})
        + (IF monPc = "send_email" /\ Head(active_alarms) = k THEN 1 ELSE 0)

(* C33: in a process where the sweep and callers of test_alarm run on      *)
(* different threads, at most one call of send_email is in progress for    *)
(* one alarm at any time.                                                  *)
C33_OneNotificationInFlight == \A k \in AllIds : InFlight(k) <= 1

(* The keys of the dict thread t got from get_alarms and still holds. *)
SnapshotKeys(t) == dict_keys(alarm_dict[t], alarms)

(* C34: while a caller holds the dict get_alarms returned, a step that     *)
(* leaves the dict alone (an insert into or a delete from the registry)    *)
(* leaves its keys what they were, and a step that changes the keys of the *)
(* dict leaves the registry what it was.                                   *)
C34_SnapshotIsolation ==
    [][\A t \in Threads :
          (pc[t] = "snapshot" /\ pc'[t] = "snapshot") =>
              /\ ~(last'.op = "del" /\ last'.thread = t /\ last' # last) =>
                    SnapshotKeys(t)' = SnapshotKeys(t)
              /\ (last'.op = "del" /\ last'.thread = t /\ last' # last) =>
                    /\ alarms' = alarms
                    /\ SnapshotKeys(t)' = SnapshotKeys(t) \ {last'.key}
      ]_vars

(* A caller holds a dict with a key that was deleted from the registry     *)
(* after get_alarms returned, and without a key of the registry that the   *)
(* caller has deleted from the dict.                                       *)
C34_Witness ==
    \E t \in Threads :
        /\ pc[t] = "snapshot"
        /\ alarm_dict[t].keys = {"100_P1"}
        /\ DOMAIN alarms = {"200_P1"}
        /\ last.op = "del"
        /\ last.thread = t

(* The ids of the records of a create call, and the last record of an id. *)
RecordIds(json_data) ==
    {Id(json_data[i].serial, json_data[i].channel) : i \in DOMAIN json_data}

LastRecord(json_data, k) ==
    LET at == {i \in DOMAIN json_data :
                  Id(json_data[i].serial, json_data[i].channel) = k}
    IN  json_data[CHOOSE i \in at : \A j \in at : j <= i]

(* C35: a create call of valid records, one of which has the id of an      *)
(* alarm of the registry, returns the ids of its records; the registry     *)
(* then holds, under each of these ids, the alarm built from the last      *)
(* record of that id, and every alarm of another key as it was; the size   *)
(* of the registry grows by the ids that were new only.                    *)
C35_CreateOverwrites ==
    (/\ last.op = "create_alarm"
     /\ \A i \in DOMAIN last.json_data : last.json_data[i].type \in AlarmType
     /\ RecordIds(last.json_data) \cap DOMAIN last.alarms # {}) =>
        LET ids == RecordIds(last.json_data)
        IN  /\ ~last.raised
            /\ last.created_ids =
                  [i \in DOMAIN last.json_data |->
                      Id(last.json_data[i].serial, last.json_data[i].channel)]
            /\ DOMAIN alarms = DOMAIN last.alarms \cup ids
            /\ Cardinality(DOMAIN alarms) =
                  Cardinality(DOMAIN last.alarms)
                      + Cardinality(ids \ DOMAIN last.alarms)
            /\ \A k \in DOMAIN last.alarms \ ids :
                  alarms[k] = last.alarms[k]
            /\ \A k \in ids :
                  /\ to_dict(alarms[k]).type = LastRecord(last.json_data, k).type
                  /\ to_dict(alarms[k]).threshold1 =
                        LastRecord(last.json_data, k).threshold1
                  /\ alarms[k].id = k

(* A list with the id of a stored BELOW alarm twice, the last record being *)
(* an ABOVE one: the registry keeps its size and holds the ABOVE alarm.    *)
C35_Witness ==
    /\ last.op = "create_alarm"
    /\ last.json_data = <<CollidingRecords.below, CollidingRecords.above>>
    /\ DOMAIN last.alarms = {"100_P1", "200_P1"}
    /\ last.alarms["100_P1"].alarm_type = "BELOW"
    /\ DOMAIN alarms = {"100_P1", "200_P1"}
    /\ alarms["100_P1"].alarm_type = "ABOVE"
    /\ alarms["200_P1"] = last.alarms["200_P1"]

(* C36: for a non-empty list of times, the instant r that                 *)
(* get_next_run_time returns for now is later than now and at most 24      *)
(* hours later, so the sleep until r is positive and at most a day; the    *)
(* call at r returns an instant later than r and at most 24 hours later.   *)
C36_WakeInstantsIncrease ==
    (last.op = "get_next_run_time" /\ last.check_times # <<>>) =>
        /\ ~last.next_time.raised
        /\ LET now == last.current_time
               r == last.next_time.ret[1]
               again == get_next_run_time(r, last.check_times)
           IN  /\ now < r
               /\ r - now > 0
               /\ r <= now + SecondsPerDay
               /\ ~again.raised
               /\ again.ret[1] > r
               /\ again.ret[1] <= r + SecondsPerDay

(* now is the only configured time: the call returns the same time of the  *)
(* next day, 24 hours later.                                               *)
C36_Witness ==
    /\ last.op = "get_next_run_time"
    /\ last.check_times = <<HHMM(14, 30)>>
    /\ last.current_time = Date(0, 14, 30, 0)
    /\ last.next_time.ret = Some(last.current_time + SecondsPerDay)

Sleeping == monPc = "time.sleep"

(* C37: with the configured schedule, when no signal arrives and every     *)
(* check of an alarm returns or raises, the monitor sweeps again and       *)
(* again: it is never out of its loop, every sleep is followed by a sweep  *)
(* and every sweep by a sleep, whatever checks raise.                      *)
C37_SweepLiveness ==
    /\ []<>Sweeping
    /\ Sleeping ~> Sweeping
    /\ Sweeping ~> Sleeping
    /\ [](monPc \notin {"retry", "exit"})

(* The monitor sleeps on the second date after Clock, after a sweep in     *)
(* which the checks of both alarms raised.                                 *)
C37_Witness ==
    /\ Sleeping
    /\ Len(sweep.errors) = 2
    /\ wall_clock >= Clock + SecondsPerDay
    /\ starts = 1

====
